---- MODULE Spec2Model ----
(***************************************************************************)
(* A model of drgolem/musictools: the lock-free SPSC rings (frame ring and *)
(* byte ring) and the FilePlayer built on the frame ring (decoder ->        *)
(* producer goroutine -> ring -> PortAudio callback), with its lifecycle    *)
(* (OpenFile, PlayFile, Wait, Stop) and status reporter.                    *)
(*                                                                         *)
(* The state machines of the module:                                       *)
(*   Spec / FairSpec : the FilePlayer.  Ring calls are taken at their      *)
(*                     publication point (the Store of the position).      *)
(*   FairSpecCallback: Spec where only the callback is sure to go on.      *)
(*   SpecPipe        : the PCM pipeline of the byte-ring players.          *)
(*   SpecStatus      : the FilePlayer with a thread that asks its status.  *)
(*   SpecDrain       : the FilePlayer, the callback's termination test     *)
(*                     taken one load at a time.                           *)
(*   SpecRings       : one producer and one consumer on a ring, each       *)
(*                     atomic Load, slot copy and Store a separate step.   *)
(*   SpecRingsMonitor: SpecRings with a third thread that asks the ring    *)
(*                     for its fill level (GetBufferStatus).               *)
(*   SpecAudioPlayer : the blocking-I/O audioplayer.Player.                *)
(*   SpecCalls       : single-threaded calls of New, Write, Read and of    *)
(*                     the frame codec.                                    *)
(***************************************************************************)
EXTENDS Integers, Sequences, FiniteSets, TLC

\* ---------------------------------------------------------------- bounds
\* Samples the decoder holds for one file.
TotalSamples == 3
\* PlayFile calls in one behaviour.
MaxPlays == 2
\* Concurrent callers of Stop().
NumStoppers == 2

\* ------------------------------------------------- player configuration
\* NewFilePlayer(deviceIdx, bufferCapacity, framesPerBuffer, samplesPerFrame)
BufferCapacity == 2
FramesPerBuffer == 2
SamplesPerFrame == 2
\* Format reported by the decoder (GetFormat): rate and channels are fixed,
\* the bit depth is chosen when the file is opened.
FileSampleRate == 44100
FileChannels == 1
BitDepths == {8, 16}

Min(a, b) == IF a < b THEN a ELSE b

RECURSIVE BitAnd(_, _)
\* a & b on naturals.
BitAnd(a, b) ==
    IF a = 0 \/ b = 0 THEN 0
    ELSE (IF a % 2 = 1 /\ b % 2 = 1 THEN 1 ELSE 0) + 2 * BitAnd(a \div 2, b \div 2)

RECURSIVE BitOr(_, _)
\* a | b on naturals.
BitOr(a, b) ==
    IF a = 0 THEN b
    ELSE IF b = 0 THEN a
    ELSE (IF a % 2 = 1 \/ b % 2 = 1 THEN 1 ELSE 0) + 2 * BitOr(a \div 2, b \div 2)

RECURSIVE Pow2(_)
Pow2(k) == IF k = 0 THEN 1 ELSE 2 * Pow2(k - 1)

\* Width of the unsigned words nextPowerOf2 computes in (uint64 in the code).
WordBits == 8
WordMod == Pow2(WordBits)

RECURSIVE Shr(_, _)
\* n >> k
Shr(n, k) == IF k = 0 \/ n = 0 THEN n ELSE Shr(n \div 2, k - 1)

\* nextPowerOf2: decrement, smear the top bit down, increment, all modulo the
\* word size.
nextPowerOf2(n) ==
    IF n = 0 THEN 1
    ELSE LET n0 == (n - 1) % WordMod
             n1 == BitOr(n0, Shr(n0, 1))
             n2 == BitOr(n1, Shr(n1, 2))
             n3 == BitOr(n2, Shr(n2, 4))
             n4 == BitOr(n3, Shr(n3, 8))
             n5 == BitOr(n4, Shr(n4, 16))
             n6 == BitOr(n5, Shr(n5, 32))
         IN  (n6 + 1) % WordMod

\* ------------------------------------------------------------ AudioFrame
Uint16(x) == x % 65536
Uint8(x) == x % 256

\* The zero value of AudioFrame (what make([]AudioFrame, n) holds).
ZeroFrame ==
    [Format |-> [SampleRate |-> 0, Channels |-> 0, BitsPerSample |-> 0],
     SamplesCount |-> 0, Audio |-> << >>]

\* The nil *AudioFrame.
NilFrame == [nil |-> TRUE]

\* -------------------------------------------------- frame ring, as calls
\* AudioFrameRingBuffer: a ring is [buffer, size, mask, writePos, readPos];
\* buffer is indexed 0 .. size-1.
FrameRingNew(capacity) ==
    LET c == nextPowerOf2(capacity)
    IN  [buffer |-> [i \in 0 .. c - 1 |-> ZeroFrame],
         size |-> c, mask |-> c - 1, writePos |-> 0, readPos |-> 0]

\* A space count that is one too large.
AvailableWriteOneMore(rb) == rb.size - (rb.writePos - rb.readPos) + 1

\* An item count that is one too large.
AvailableReadOneMore(rb) == rb.writePos - rb.readPos + 1

\* The positions are unsigned words: a difference below 0 wraps around.
AvailableWrite(rb) == (rb.size - ((rb.writePos - rb.readPos) % WordMod)) % WordMod

AvailableRead(rb) == (rb.writePos - rb.readPos) % WordMod

RECURSIVE FrameRingStore(_, _, _, _, _)
\* The copy loop of Write: slots writePos+i .. writePos+toWrite-1 get frames
\* i+1 .. toWrite (each payload is a fresh copy, a value here).
FrameRingStore(buffer, mask, writePos, frames, i) ==
    IF i >= Len(frames) THEN buffer
    ELSE FrameRingStore(
             [buffer EXCEPT ![BitAnd(writePos + i, mask)] = frames[i + 1]],
             mask, writePos, frames, i + 1)

\* A Write that stores its frames only when all of them fit.
FrameRingWriteAllOrNothing(rb, frames) ==
    LET frameCount == Len(frames)
    IN  IF frameCount = 0 THEN [rb |-> rb, n |-> 0, err |-> "nil"]
        ELSE IF frameCount > AvailableWrite(rb)
             THEN [rb |-> rb, n |-> 0, err |-> "ErrInsufficientSpace"]
        ELSE [rb |-> [rb EXCEPT
                        !.buffer = FrameRingStore(rb.buffer, rb.mask, rb.writePos,
                                                  frames, 0),
                        !.writePos = rb.writePos + frameCount],
              n |-> frameCount, err |-> "nil"]

\* Write(frames) -> [rb, n, err]
FrameRingWrite(rb, frames) ==
    LET frameCount == Len(frames)
        available == AvailableWrite(rb)
        toWrite == Min(frameCount, available)
    IN  IF frameCount = 0 THEN [rb |-> rb, n |-> 0, err |-> "nil"]
        ELSE IF toWrite = 0 THEN [rb |-> rb, n |-> 0, err |-> "ErrInsufficientSpace"]
        ELSE [rb |-> [rb EXCEPT
                        !.buffer = FrameRingStore(rb.buffer, rb.mask, rb.writePos,
                                                  SubSeq(frames, 1, toWrite), 0),
                        !.writePos = rb.writePos + toWrite],
              n |-> toWrite, err |-> "nil"]

\* A Read that returns every readable frame, whatever was asked for.
FrameRingReadAll(rb, numFrames) ==
    LET available == AvailableRead(rb)
    IN  IF numFrames <= 0 THEN [rb |-> rb, frames |-> << >>, err |-> "nil", allocs |-> 0]
        ELSE IF available = 0
             THEN [rb |-> rb, frames |-> << >>, err |-> "ErrInsufficientData", allocs |-> 0]
        ELSE [rb |-> [rb EXCEPT !.readPos = rb.readPos + available],
              frames |-> [i \in 1 .. available |->
                             rb.buffer[BitAnd(rb.readPos + (i - 1), rb.mask)]],
              err |-> "nil", allocs |-> 1]

\* Read(numFrames) -> [rb, frames, err, allocs]; allocs counts the make() of
\* the result slice.
FrameRingRead(rb, numFrames) ==
    LET available == AvailableRead(rb)
        toRead == Min(numFrames, available)
    IN  IF numFrames <= 0 THEN [rb |-> rb, frames |-> << >>, err |-> "nil", allocs |-> 0]
        ELSE IF available = 0
             THEN [rb |-> rb, frames |-> << >>, err |-> "ErrInsufficientData", allocs |-> 0]
        ELSE [rb |-> [rb EXCEPT !.readPos = rb.readPos + toRead],
              frames |-> [i \in 1 .. toRead |->
                             rb.buffer[BitAnd(rb.readPos + (i - 1), rb.mask)]],
              err |-> "nil", allocs |-> 1]

FrameRingReset(rb) == [rb EXCEPT !.readPos = 0, !.writePos = 0]

\* ------------------------------------------------------------- variables
VARIABLES
    fp,        \* the FilePlayer struct
    dec,       \* the decoder object behind fp.decoder
    prod,      \* the producer goroutine
    cb,        \* the audio callback (PortAudio's thread)
    stopper,   \* callers of Stop()
    waiter,    \* the caller of Wait()
    main,      \* the owner thread: OpenFile / PlayFile and what they returned
    hist,      \* what has happened in the current session (observations)
    crashed,   \* a goroutine panicked: the process is gone
    ring,      \* the rings of SpecRings
    ap,        \* the blocking-I/O audioplayer.Player of SpecAudioPlayer
    mon,       \* a thread that calls GetPlaybackStatus (SpecStatus)
    call       \* single-threaded calls of the rings and the frame codec (SpecCalls)

vars == <<fp, dec, prod, cb, stopper, waiter, main, hist, crashed, ring, ap, mon, call>>

playerVars == <<fp, dec, prod, cb, stopper, waiter, main, hist, crashed, ap, mon, call>>

Stoppers == 1 .. NumStoppers

DecModes == {"clean", "error", "tail"}

\* A byte the host left in the output buffer before the callback runs.
Garbage == -1

\* The PCM bytes of sample k (0-based) of the file: distinct and non-zero.
SampleBytes(k, bytesPerSample) ==
    [j \in 1 .. bytesPerSample |-> k * bytesPerSample + j]

\* The bytes of samples from .. from+n-1, interleaved in order: byte i is
\* byte ((i-1) mod bytesPerSample) + 1 of sample from + (i-1) div bytesPerSample.
PcmBytes(from, n, bytesPerSample) ==
    [i \in 1 .. n * bytesPerSample |->
        SampleBytes(from + ((i - 1) \div bytesPerSample), bytesPerSample)
            [((i - 1) % bytesPerSample) + 1]]

\* ------------------------------------------------------------------ Init
HistInit ==
    [plays |-> 0,          \* PlayFile calls so far
     teardown |-> << >>,   \* teardown steps Stop() has run since the last PlayFile
     completeFires |-> 0,  \* closes of playbackCompleteChan since the last PlayFile
     waitReturns |-> 0,    \* returns of Wait() since the last PlayFile
     decoded |-> 0,        \* samples DecodeSamples reported since the last PlayFile
     cbAllocs |-> 0]       \* heap allocations of the callback invocation under way

\* NewFilePlayer: everything but the ring and the configuration is the zero
\* value.
NewFilePlayer ==
    [ringbuf |-> FrameRingNew(BufferCapacity),
     stream |-> "nil",
     decoder |-> "nil",
     framesPerBuffer |-> FramesPerBuffer,
     samplesPerFrame |-> SamplesPerFrame,
     sampleRate |-> 0, channels |-> 0, bitsPerSample |-> 0, bytesPerSample |-> 0,
     producerDone |-> FALSE,
     playbackComplete |-> FALSE,
     playbackCompleteChan |-> "nil",
     stopChan |-> "nil",
     wg |-> 0,
     stopped |-> FALSE,
     currentFrame |-> NilFrame,
     frameOffset |-> 0,
     producedSamples |-> 0,
     playedSamples |-> 0]

RingIdle == [kind |-> "none"]

\* No audioplayer.Player has been constructed.
ApIdle == [kind |-> "none"]

\* The monitor thread between two GetPlaybackStatus calls, none made yet.
MonIdle == [pc |-> "idle", produced |-> 0, status |-> [made |-> FALSE]]

\* None of the calls of SpecCalls is being made.
CallIdle == [kind |-> "none"]

Init ==
    /\ fp = NewFilePlayer
    /\ dec = [open |-> FALSE, pos |-> 0, mode |-> "clean"]
    /\ prod = [pc |-> "none", samplesRead |-> 0, toWrite |-> << >>]
    /\ cb = [pc |-> "idle", bytesNeeded |-> 0, bytesWritten |-> 0,
             output |-> << >>, result |-> "none"]
    /\ stopper = [s \in Stoppers |-> "idle"]
    /\ waiter = "idle"
    /\ main = [phase |-> "Idle", call |-> "none", err |-> "nil"]
    /\ hist = HistInit
    /\ crashed = FALSE
    /\ ring = RingIdle
    /\ ap = ApIdle
    /\ mon = MonIdle
    /\ call = CallIdle

\* No Stop() call is between its entry and its return.
NoStopInProgress == \A s \in Stoppers : stopper[s] = "idle"

\* An OpenFile that creates the new decoder before it lets go of the old
\* one, and keeps the old one when that fails.
OpenFileKeepsOnFailure ==
    /\ ~crashed
    /\ main.phase \in {"Idle", "Opened", "Stopped"}
    /\ NoStopInProgress
    /\ \/ /\ UNCHANGED <<fp, dec>>
          /\ main' = [main EXCEPT !.call = "OpenFile", !.err = "OpenFailed"]
       \/ \E bps \in BitDepths, m \in DecModes :
            /\ fp' = [fp EXCEPT !.decoder = "open",
                                !.sampleRate = FileSampleRate,
                                !.channels = FileChannels,
                                !.bitsPerSample = bps,
                                !.bytesPerSample = bps \div 8]
            /\ dec' = [open |-> TRUE, pos |-> 0, mode |-> m]
            /\ main' = [phase |-> "Opened", call |-> "OpenFile", err |-> "nil"]
    /\ UNCHANGED <<prod, cb, stopper, waiter, hist, crashed, ring, ap, mon, call>>

\* ------------------------------------------------------ OpenFile, PlayFile
\* OpenFile: the previous decoder is closed and dropped first; then the
\* factory either fails (unsupported extension, Open error) or yields an
\* open decoder whose format is recorded.
OpenFile ==
    /\ ~crashed
    /\ main.phase \in {"Idle", "Opened", "Stopped"}
    /\ NoStopInProgress
    /\ \/ /\ fp' = [fp EXCEPT !.decoder = "nil"]
          /\ dec' = [dec EXCEPT !.open = FALSE]
          /\ main' = [phase |-> IF main.phase = "Stopped" THEN "Stopped" ELSE "Idle",
                      call |-> "OpenFile", err |-> "OpenFailed"]
       \/ \E bps \in BitDepths, m \in DecModes :
            /\ fp' = [fp EXCEPT !.decoder = "open",
                                !.sampleRate = FileSampleRate,
                                !.channels = FileChannels,
                                !.bitsPerSample = bps,
                                !.bytesPerSample = bps \div 8]
            /\ dec' = [open |-> TRUE, pos |-> 0, mode |-> m]
            /\ main' = [phase |-> "Opened", call |-> "OpenFile", err |-> "nil"]
    /\ UNCHANGED <<prod, cb, stopper, waiter, hist, crashed, ring, ap, mon, call>>

\* A reset that leaves the callback's held frame and its offset alone.
PlayFileResetKeepsFrame(f) ==
    [f EXCEPT !.producerDone = FALSE,
              !.playbackComplete = FALSE,
              !.playbackCompleteChan = "open",
              !.stopChan = "open",
              !.stopped = FALSE,
              !.ringbuf = FrameRingReset(f.ringbuf),
              !.producedSamples = 0,
              !.playedSamples = 0]

\* The "Reset state" block of PlayFile.
PlayFileReset(f) ==
    [f EXCEPT !.producerDone = FALSE,
              !.playbackComplete = FALSE,
              !.playbackCompleteChan = "open",
              !.stopChan = "open",
              !.stopped = FALSE,
              !.currentFrame = NilFrame,
              !.frameOffset = 0,
              !.ringbuf = FrameRingReset(f.ringbuf),
              !.producedSamples = 0,
              !.playedSamples = 0]

\* initializeStream with the host's answers to OpenCallback and StartStream:
\* the stream handle it leaves in fp.stream and the error it returns.
\*   "new"    a PaStream value that was never opened
\*   "open"   opened, not started
\*   "active" started: the host invokes the callback
initializeStream(f, openOk, startOk) ==
    IF f.bitsPerSample \notin {16, 24, 32}
    THEN [stream |-> f.stream, err |-> "UnsupportedBitDepth"]
    ELSE IF ~openOk THEN [stream |-> "new", err |-> "StreamOpen"]
    ELSE IF ~startOk THEN [stream |-> "open", err |-> "StreamStart"]
    ELSE [stream |-> "active", err |-> "nil"]

\* PlayFile, from its entry to its return.  The producer goroutine is spawned
\* (wg.Add(1); go fp.producer()) only when initializeStream succeeded.
PlayFile ==
    /\ ~crashed
    /\ main.phase \in {"Idle", "Opened", "Stopped"}
    /\ NoStopInProgress
    /\ waiter \in {"idle", "returned"}
    /\ hist.plays < MaxPlays
    /\ IF fp.decoder = "nil"
       THEN /\ main' = [main EXCEPT !.call = "PlayFile", !.err = "NoFileOpen"]
            /\ hist' = [hist EXCEPT !.plays = @ + 1]
            /\ UNCHANGED <<fp, prod, cb, waiter>>
       ELSE \E openOk \in BOOLEAN, startOk \in BOOLEAN :
              LET r == initializeStream(PlayFileReset(fp), openOk, startOk)
              IN  /\ fp' = [PlayFileReset(fp) EXCEPT
                              !.stream = r.stream,
                              !.wg = IF r.err = "nil" THEN @ + 1 ELSE @]
                  /\ prod' = IF r.err = "nil"
                             THEN [pc |-> "select", samplesRead |-> 0, toWrite |-> << >>]
                             ELSE prod
                  /\ main' = [phase |-> IF r.err = "nil" THEN "Playing" ELSE main.phase,
                              call |-> "PlayFile", err |-> r.err]
                  /\ hist' = [HistInit EXCEPT !.plays = hist.plays + 1]
                  /\ waiter' = "idle"
                  /\ cb' = [cb EXCEPT !.result = "none"]
    /\ UNCHANGED <<dec, stopper, crashed, ring, ap, mon, call>>

\* ---------------------------------------------------------------- decoder
\* What DecodeSamples(samples, buffer) may return, [n, err], for a decoder
\* that has delivered pos of its TotalSamples samples.
\*   clean  a positive count (possibly short) until the end, then (0, EOF)
\*   error  as clean, but any call may fail with (0, DecodeError)
\*   tail   as the WAV decoder: a last short read returns its count together
\*          with the end-of-file error
DecodeOutcomes(mode, pos, samples) ==
    LET rem == TotalSamples - pos
    IN  IF rem = 0 THEN {[n |-> 0, err |-> "EOF"]}
        ELSE IF mode = "tail" /\ rem < samples THEN {[n |-> rem, err |-> "EOF"]}
        ELSE {[n |-> k, err |-> "nil"] : k \in 1 .. Min(samples, rem)}
             \cup (IF mode = "error" THEN {[n |-> 0, err |-> "DecodeError"]} ELSE {})

\* --------------------------------------------------------------- producer
\* The frame the producer builds from samplesRead decoded samples that start
\* at sample `from` of the file.
ProducerFrame(f, from, samplesRead) ==
    [Format |-> [SampleRate |-> f.sampleRate,
                 Channels |-> Uint8(f.channels),
                 BitsPerSample |-> Uint8(f.bitsPerSample)],
     SamplesCount |-> Uint16(samplesRead),
     Audio |-> PcmBytes(from, samplesRead, f.channels * f.bytesPerSample)]

\* Top of the loop: select on stopChan with a default.
ProducerSelect ==
    /\ ~crashed
    /\ prod.pc = "select"
    /\ prod' = [prod EXCEPT !.pc = IF fp.stopChan = "closed" THEN "deferDone" ELSE "decode"]
    /\ UNCHANGED <<fp, dec, cb, stopper, waiter, main, hist, crashed, ring, ap, mon, call>>

\* fp.decoder.DecodeSamples, then the frame is built.  A nil fp.decoder is a
\* nil dereference.
ProducerDecode ==
    /\ ~crashed
    /\ prod.pc = "decode"
    /\ IF fp.decoder = "nil" \/ ~dec.open
       THEN /\ crashed' = TRUE
            /\ UNCHANGED <<prod, dec, hist>>
       ELSE \E r \in DecodeOutcomes(dec.mode, dec.pos, fp.samplesPerFrame) :
              /\ dec' = [dec EXCEPT !.pos = @ + r.n]
              /\ hist' = [hist EXCEPT !.decoded = @ + r.n]
              /\ prod' = IF r.err # "nil" \/ r.n = 0
                         THEN [prod EXCEPT !.pc = "deferDone", !.samplesRead = r.n]
                         ELSE [pc |-> "write", samplesRead |-> r.n,
                               toWrite |-> <<ProducerFrame(fp, dec.pos, r.n)>>]
              /\ UNCHANGED crashed
    /\ UNCHANGED <<fp, cb, stopper, waiter, main, ring, ap, mon, call>>

\* One fp.ringbuf.Write(toWrite) of the retry loop.
ProducerWrite ==
    /\ ~crashed
    /\ prod.pc = "write"
    /\ LET w == FrameRingWrite(fp.ringbuf, prod.toWrite)
       IN  /\ fp' = [fp EXCEPT !.ringbuf = w.rb]
           /\ prod' = IF w.n > 0
                      THEN [prod EXCEPT !.pc = "count",
                                        !.toWrite = SubSeq(@, w.n + 1, Len(@))]
                      ELSE [prod EXCEPT !.pc = "check"]
    /\ UNCHANGED <<dec, cb, stopper, waiter, main, hist, crashed, ring, ap, mon, call>>

\* A counter update that stores the size of the latest frame.
ProducerCountStores ==
    /\ ~crashed
    /\ prod.pc = "count"
    /\ fp' = [fp EXCEPT !.producedSamples = prod.samplesRead]
    /\ prod' = [prod EXCEPT !.pc = "check"]
    /\ UNCHANGED <<dec, cb, stopper, waiter, main, hist, crashed, ring, ap, mon, call>>

\* fp.producedSamples.Add(uint64(samplesRead)), after a write that stored.
ProducerCount ==
    /\ ~crashed
    /\ prod.pc = "count"
    /\ fp' = [fp EXCEPT !.producedSamples = @ + prod.samplesRead]
    /\ prod' = [prod EXCEPT !.pc = "check"]
    /\ UNCHANGED <<dec, cb, stopper, waiter, main, hist, crashed, ring, ap, mon, call>>

\* A retry loop that does not look at the stop signal.
ProducerCheckIgnoresStop ==
    /\ ~crashed
    /\ prod.pc = "check"
    /\ prod' = [prod EXCEPT !.pc = IF Len(prod.toWrite) > 0 THEN "write" ELSE "select"]
    /\ UNCHANGED <<fp, dec, cb, stopper, waiter, main, hist, crashed, ring, ap, mon, call>>

\* The stop check inside the retry loop, then the loop conditions.
ProducerCheck ==
    /\ ~crashed
    /\ prod.pc = "check"
    /\ prod' = [prod EXCEPT !.pc =
                   IF fp.stopChan = "closed" THEN "deferDone"
                   ELSE IF Len(prod.toWrite) > 0 THEN "write"
                   ELSE "select"]
    /\ UNCHANGED <<fp, dec, cb, stopper, waiter, main, hist, crashed, ring, ap, mon, call>>

\* A first deferred call that stores nothing.
ProducerDeferDoneStoresNothing ==
    /\ ~crashed
    /\ prod.pc = "deferDone"
    /\ prod' = [prod EXCEPT !.pc = "deferWg"]
    /\ UNCHANGED <<fp, dec, cb, stopper, waiter, main, hist, crashed, ring, ap, mon, call>>

\* defer fp.producerDone.Store(true): registered last, so it runs first.
ProducerDeferDone ==
    /\ ~crashed
    /\ prod.pc = "deferDone"
    /\ fp' = [fp EXCEPT !.producerDone = TRUE]
    /\ prod' = [prod EXCEPT !.pc = "deferWg"]
    /\ UNCHANGED <<dec, cb, stopper, waiter, main, hist, crashed, ring, ap, mon, call>>

\* defer fp.wg.Done()
ProducerDeferWg ==
    /\ ~crashed
    /\ prod.pc = "deferWg"
    /\ fp' = [fp EXCEPT !.wg = @ - 1]
    /\ prod' = [prod EXCEPT !.pc = "exited"]
    /\ UNCHANGED <<dec, cb, stopper, waiter, main, hist, crashed, ring, ap, mon, call>>

ProducerRunning == prod.pc \notin {"none", "exited"}

\* --------------------------------------------------------- audio callback
\* A termination test that does not look at the ring.
PlaybackDrainedIgnoresRing(f) == f.producerDone /\ f.currentFrame = NilFrame

\* The termination test at the top of audioCallback.
PlaybackDrained(f) ==
    f.producerDone /\ AvailableRead(f.ringbuf) = 0 /\ f.currentFrame = NilFrame

\* CallbackEnter whose completion branch closes the channel without the
\* select that looks whether it is closed already.
CallbackEnterClosesAgain ==
    /\ ~crashed
    /\ fp.stream \in {"active", "finished"}
    /\ cb.pc = "idle"
    /\ IF PlaybackDrained(fp)
       THEN /\ fp' = [fp EXCEPT !.playbackComplete = TRUE,
                                !.playbackCompleteChan = "closed",
                                !.stream = "finished"]
            /\ hist' = [hist EXCEPT
                          !.completeFires = @ + 1,
                          !.cbAllocs = 0]
            /\ cb' = [cb EXCEPT !.result = "Complete"]
       ELSE /\ cb' = [pc |-> "fill",
                      bytesNeeded |-> fp.framesPerBuffer * fp.channels * fp.bytesPerSample,
                      bytesWritten |-> 0,
                      output |-> [i \in 1 .. fp.framesPerBuffer * fp.channels
                                                * fp.bytesPerSample |-> Garbage],
                      result |-> "none"]
            /\ hist' = [hist EXCEPT !.cbAllocs = 0]
            /\ UNCHANGED fp
    /\ UNCHANGED <<dec, prod, stopper, waiter, main, crashed, ring, ap, mon, call>>

\* The host invokes audioCallback: it runs up to its first return or to the
\* fill loop.  In the completion branch the channel is closed unless the
\* select finds it closed already.  The host may invoke the callback of a
\* started stream again after Complete.
CallbackEnter ==
    /\ ~crashed
    /\ fp.stream \in {"active", "finished"}
    /\ cb.pc = "idle"
    /\ IF PlaybackDrained(fp)
       THEN /\ fp' = [fp EXCEPT !.playbackComplete = TRUE,
                                !.playbackCompleteChan = "closed",
                                !.stream = "finished"]
            /\ hist' = [hist EXCEPT
                          !.completeFires =
                              IF fp.playbackCompleteChan = "closed" THEN @ ELSE @ + 1,
                          !.cbAllocs = 0]
            /\ cb' = [cb EXCEPT !.result = "Complete"]
       ELSE /\ cb' = [pc |-> "fill",
                      bytesNeeded |-> fp.framesPerBuffer * fp.channels * fp.bytesPerSample,
                      bytesWritten |-> 0,
                      output |-> [i \in 1 .. fp.framesPerBuffer * fp.channels
                                                * fp.bytesPerSample |-> Garbage],
                      result |-> "none"]
            /\ hist' = [hist EXCEPT !.cbAllocs = 0]
            /\ UNCHANGED fp
    /\ UNCHANGED <<dec, prod, stopper, waiter, main, crashed, ring, ap, mon, call>>

\* A copy that takes the frame's bytes from its start whatever the offset.
CopyIntoFromStart(output, bytesWritten, audio, frameOffset, n) ==
    [i \in 1 .. Len(output) |->
        IF i > bytesWritten /\ i <= bytesWritten + n
        THEN audio[i - bytesWritten]
        ELSE output[i]]

\* copy(output[bytesWritten:bytesWritten+n], audio[frameOffset:frameOffset+n])
CopyInto(output, bytesWritten, audio, frameOffset, n) ==
    [i \in 1 .. Len(output) |->
        IF i > bytesWritten /\ i <= bytesWritten + n
        THEN audio[frameOffset + (i - bytesWritten)]
        ELSE output[i]]

\* A fill loop that, with no frame held and none in the ring, waits for the
\* producer to write one unless the producer is done.
CallbackFillWaits ==
    /\ ~crashed
    /\ cb.pc = "fill"
    /\ LET needRead == fp.currentFrame = NilFrame
           canRead == AvailableRead(fp.ringbuf) > 0
           r == FrameRingRead(fp.ringbuf, 1)
           frame == IF needRead THEN r.frames[1] ELSE fp.currentFrame
           offset == IF needRead THEN 0 ELSE fp.frameOffset
           bytesToCopy == Min(Len(frame.Audio) - offset, cb.bytesNeeded - cb.bytesWritten)
       IN  IF needRead /\ ~canRead
           THEN /\ cb' = IF fp.producerDone THEN [cb EXCEPT !.pc = "finish"] ELSE cb
                /\ UNCHANGED <<fp, hist>>
           ELSE /\ fp' = [fp EXCEPT
                            !.ringbuf = IF needRead THEN r.rb ELSE @,
                            !.currentFrame =
                                IF offset + bytesToCopy >= Len(frame.Audio)
                                THEN NilFrame ELSE frame,
                            !.frameOffset =
                                IF offset + bytesToCopy >= Len(frame.Audio)
                                THEN 0 ELSE offset + bytesToCopy]
                /\ cb' = [cb EXCEPT
                            !.output = CopyInto(@, cb.bytesWritten, frame.Audio,
                                                offset, bytesToCopy),
                            !.bytesWritten = @ + bytesToCopy,
                            !.pc = IF cb.bytesWritten + bytesToCopy < cb.bytesNeeded
                                   THEN "fill" ELSE "finish"]
                /\ hist' = [hist EXCEPT
                              !.cbAllocs = IF needRead THEN @ + r.allocs ELSE @]
    /\ UNCHANGED <<dec, prod, stopper, waiter, main, crashed, ring, ap, mon, call>>

\* One iteration of the fill loop: fetch a frame when none is held (Read(1)
\* allocates its result slice), copy what fits, drop the frame when it is
\* used up.  With nothing to fetch the loop is left.
CallbackFill ==
    /\ ~crashed
    /\ cb.pc = "fill"
    /\ LET needRead == fp.currentFrame = NilFrame
           canRead == AvailableRead(fp.ringbuf) > 0
           r == FrameRingRead(fp.ringbuf, 1)
           frame == IF needRead THEN r.frames[1] ELSE fp.currentFrame
           offset == IF needRead THEN 0 ELSE fp.frameOffset
           remainingInFrame == Len(frame.Audio) - offset
           remainingInOutput == cb.bytesNeeded - cb.bytesWritten
           bytesToCopy == Min(remainingInFrame, remainingInOutput)
       IN  IF needRead /\ (~canRead \/ r.err # "nil" \/ Len(r.frames) = 0)
           THEN /\ cb' = [cb EXCEPT !.pc = "finish"]
                /\ UNCHANGED <<fp, hist>>
           ELSE /\ fp' = [fp EXCEPT
                            !.ringbuf = IF needRead THEN r.rb ELSE @,
                            !.currentFrame =
                                IF offset + bytesToCopy >= Len(frame.Audio)
                                THEN NilFrame ELSE frame,
                            !.frameOffset =
                                IF offset + bytesToCopy >= Len(frame.Audio)
                                THEN 0 ELSE offset + bytesToCopy]
                /\ cb' = [cb EXCEPT
                            !.output = CopyInto(@, cb.bytesWritten, frame.Audio,
                                                offset, bytesToCopy),
                            !.bytesWritten = @ + bytesToCopy,
                            !.pc = IF cb.bytesWritten + bytesToCopy < cb.bytesNeeded
                                   THEN "fill" ELSE "finish"]
                /\ hist' = [hist EXCEPT
                              !.cbAllocs = IF needRead THEN @ + r.allocs ELSE @]
    /\ UNCHANGED <<dec, prod, stopper, waiter, main, crashed, ring, ap, mon, call>>

\* A clear that leaves the output as the host gave it.
SilenceFillNothing(output, bytesWritten) == output

\* clear(output[bytesWritten:bytesNeeded])
SilenceFill(output, bytesWritten) ==
    [i \in 1 .. Len(output) |-> IF i > bytesWritten THEN 0 ELSE output[i]]

\* CallbackFinish that adds the bytes written, not the samples, to the counter.
CallbackFinishCountsBytes ==
    /\ ~crashed
    /\ cb.pc = "finish"
    /\ cb' = [cb EXCEPT
                !.output = IF cb.bytesWritten < cb.bytesNeeded
                           THEN SilenceFill(@, cb.bytesWritten) ELSE @,
                !.pc = "idle",
                !.result = "Continue"]
    /\ fp' = [fp EXCEPT !.playedSamples = @ + cb.bytesWritten]
    /\ UNCHANGED <<dec, prod, stopper, waiter, main, hist, crashed, ring, ap, mon, call>>

\* After the loop: silence for the rest, the played counter, Continue.
CallbackFinish ==
    /\ ~crashed
    /\ cb.pc = "finish"
    /\ cb' = [cb EXCEPT
                !.output = IF cb.bytesWritten < cb.bytesNeeded
                           THEN SilenceFill(@, cb.bytesWritten) ELSE @,
                !.pc = "idle",
                !.result = "Continue"]
    /\ fp' = [fp EXCEPT !.playedSamples =
                 @ + (cb.bytesWritten \div (fp.channels * fp.bytesPerSample))]
    /\ UNCHANGED <<dec, prod, stopper, waiter, main, hist, crashed, ring, ap, mon, call>>

\* -------------------------------------------------------------------- Wait
WaitCall ==
    /\ ~crashed
    /\ waiter = "idle"
    /\ main.phase = "Playing"
    /\ waiter' = "join"
    /\ UNCHANGED <<fp, dec, prod, cb, stopper, main, hist, crashed, ring, ap, mon, call>>

\* fp.wg.Wait()
WaitJoin ==
    /\ ~crashed
    /\ waiter = "join"
    /\ fp.wg = 0
    /\ waiter' = "chan"
    /\ UNCHANGED <<fp, dec, prod, cb, stopper, main, hist, crashed, ring, ap, mon, call>>

\* <-fp.playbackCompleteChan, then Wait returns.
WaitChan ==
    /\ ~crashed
    /\ waiter = "chan"
    /\ fp.playbackCompleteChan = "closed"
    /\ waiter' = "returned"
    /\ hist' = [hist EXCEPT !.waitReturns = @ + 1]
    /\ UNCHANGED <<fp, dec, prod, cb, stopper, main, crashed, ring, ap, mon, call>>

\* -------------------------------------------------------------------- Stop
\* StopEnter without the test of the stopped flag: every call tears down.
StopEnterNoFlagTest(s) ==
    /\ ~crashed
    /\ stopper[s] = "idle"
    /\ main.phase # "Idle"
    /\ stopper' = [stopper EXCEPT ![s] = "closeStopChan"]
    /\ fp' = [fp EXCEPT !.stopped = TRUE]
    /\ UNCHANGED <<dec, prod, cb, waiter, main, hist, crashed, ring, ap, mon, call>>

\* Stop() is called in any state at or after Opened.  Entry: the mutex is
\* taken, the stopped flag tested and set, the mutex released.  A call that
\* finds the flag set returns nil at once ("returnedFast").
StopEnter(s) ==
    /\ ~crashed
    /\ stopper[s] = "idle"
    /\ main.phase # "Idle"
    /\ IF fp.stopped
       THEN /\ stopper' = [stopper EXCEPT ![s] = "returnedFast"]
            /\ UNCHANGED fp
       ELSE /\ stopper' = [stopper EXCEPT ![s] = "closeStopChan"]
            /\ fp' = [fp EXCEPT !.stopped = TRUE]
    /\ UNCHANGED <<dec, prod, cb, waiter, main, hist, crashed, ring, ap, mon, call>>

\* close(fp.stopChan): closing a nil or a closed channel panics.
StopCloseStopChan(s) ==
    /\ ~crashed
    /\ stopper[s] = "closeStopChan"
    /\ IF fp.stopChan = "open"
       THEN /\ fp' = [fp EXCEPT !.stopChan = "closed"]
            /\ stopper' = [stopper EXCEPT ![s] = "join"]
            /\ hist' = [hist EXCEPT !.teardown = Append(@, "closeStopChan")]
            /\ UNCHANGED crashed
       ELSE /\ crashed' = TRUE
            /\ UNCHANGED <<fp, stopper, hist>>
    /\ UNCHANGED <<dec, prod, cb, waiter, main, ring, ap, mon, call>>

\* StopJoin without the wait for the producer.
StopJoinNoWait(s) ==
    /\ ~crashed
    /\ stopper[s] = "join"
    /\ stopper' = [stopper EXCEPT ![s] = "stopStream"]
    /\ hist' = [hist EXCEPT !.teardown = Append(@, "join")]
    /\ UNCHANGED <<fp, dec, prod, cb, waiter, main, crashed, ring, ap, mon, call>>

\* fp.wg.Wait()
StopJoin(s) ==
    /\ ~crashed
    /\ stopper[s] = "join"
    /\ fp.wg = 0
    /\ stopper' = [stopper EXCEPT ![s] = "stopStream"]
    /\ hist' = [hist EXCEPT !.teardown = Append(@, "join")]
    /\ UNCHANGED <<fp, dec, prod, cb, waiter, main, crashed, ring, ap, mon, call>>

\* fp.stream.StopStream() when fp.stream is not nil: it returns once no
\* callback is in flight.  An error (a stream that never started) is logged.
StopStopStream(s) ==
    /\ ~crashed
    /\ stopper[s] = "stopStream"
    /\ IF fp.stream = "nil"
       THEN /\ stopper' = [stopper EXCEPT ![s] = "closeDecoder"]
            /\ UNCHANGED <<fp, hist>>
       ELSE /\ cb.pc = "idle"
            /\ fp' = [fp EXCEPT !.stream =
                         IF @ \in {"active", "finished"} THEN "stopped" ELSE @]
            /\ stopper' = [stopper EXCEPT ![s] = "closeStream"]
            /\ hist' = [hist EXCEPT !.teardown = Append(@, "stopStream")]
    /\ UNCHANGED <<dec, prod, cb, waiter, main, crashed, ring, ap, mon, call>>

\* fp.stream.CloseCallback(), then fp.stream = nil.
StopCloseStream(s) ==
    /\ ~crashed
    /\ stopper[s] = "closeStream"
    /\ fp' = [fp EXCEPT !.stream = "nil"]
    /\ stopper' = [stopper EXCEPT ![s] = "closeDecoder"]
    /\ hist' = [hist EXCEPT !.teardown = Append(@, "closeStream")]
    /\ UNCHANGED <<dec, prod, cb, waiter, main, crashed, ring, ap, mon, call>>

\* fp.decoder.Close() and fp.decoder = nil when a decoder is held; return nil.
StopCloseDecoder(s) ==
    /\ ~crashed
    /\ stopper[s] = "closeDecoder"
    /\ IF fp.decoder = "nil"
       THEN UNCHANGED <<fp, dec, hist>>
       ELSE /\ fp' = [fp EXCEPT !.decoder = "nil"]
            /\ dec' = [dec EXCEPT !.open = FALSE]
            /\ hist' = [hist EXCEPT !.teardown = Append(@, "closeDecoder")]
    /\ stopper' = [stopper EXCEPT ![s] = "returned"]
    /\ main' = [main EXCEPT !.phase = "Stopped"]
    /\ UNCHANGED <<prod, cb, waiter, crashed, ring, ap, mon, call>>

\* The caller goes on after Stop() returned; it may call Stop() again.
StopDone(s) ==
    /\ ~crashed
    /\ stopper[s] \in {"returned", "returnedFast"}
    /\ stopper' = [stopper EXCEPT ![s] = "idle"]
    /\ UNCHANGED <<fp, dec, prod, cb, waiter, main, hist, crashed, ring, ap, mon, call>>

Stop(s) ==
    \/ StopEnter(s)
    \/ StopCloseStopChan(s)
    \/ StopJoin(s)
    \/ StopStopStream(s)
    \/ StopCloseStream(s)
    \/ StopCloseDecoder(s)
    \/ StopDone(s)

\* ------------------------------------------------------------ FilePlayer
Producer ==
    \/ ProducerSelect
    \/ ProducerDecode
    \/ ProducerWrite
    \/ ProducerCount
    \/ ProducerCheck
    \/ ProducerDeferDone
    \/ ProducerDeferWg

Callback ==
    \/ CallbackEnter
    \/ CallbackFill
    \/ CallbackFinish

Wait ==
    \/ WaitCall
    \/ WaitJoin
    \/ WaitChan

Next ==
    \/ OpenFile
    \/ PlayFile
    \/ Producer
    \/ Callback
    \/ Wait
    \/ \E s \in Stoppers : Stop(s)

Spec == Init /\ [][Next]_vars

\* Fairness: a started goroutine keeps running, the host keeps invoking the
\* callback of a started stream, and a call that has been entered goes on.
\* Whether OpenFile, PlayFile, Wait or Stop are called at all is up to the
\* caller.
StopProgress(s) ==
    \/ StopCloseStopChan(s)
    \/ StopJoin(s)
    \/ StopStopStream(s)
    \/ StopCloseStream(s)
    \/ StopCloseDecoder(s)

FairSpec ==
    /\ Spec
    /\ WF_vars(Producer)
    /\ WF_vars(Callback)
    /\ WF_vars(WaitJoin \/ WaitChan)
    /\ \A s \in Stoppers : WF_vars(StopProgress(s))

\* The host keeps running an invocation of the callback it has started; no
\* other thread is required to take a step.
FairSpecCallback == Spec /\ WF_vars(Callback)

\* ----------------------------------------------------------- status reporter
\* GetPlaybackStatus from the two counter values it loaded.
\* A status whose buffered count is the unsigned difference, unguarded.
GetPlaybackStatusUnguarded(f, produced, played) ==
    [SampleRate |-> f.sampleRate,
     Channels |-> f.channels,
     BitsPerSample |-> f.bitsPerSample,
     FramesPerBuffer |-> f.framesPerBuffer,
     PlayedSamples |-> played,
     BufferedSamples |-> (produced - played) % WordMod]

GetPlaybackStatus(f, produced, played) ==
    [SampleRate |-> f.sampleRate,
     Channels |-> f.channels,
     BitsPerSample |-> f.bitsPerSample,
     FramesPerBuffer |-> f.framesPerBuffer,
     PlayedSamples |-> played,
     BufferedSamples |-> IF produced > played THEN produced - played ELSE 0]

\* ====================================================== FilePlayer claims
\* The latest call of the owner thread is a PlayFile that succeeded: a
\* session is under way or has been stopped.
InSession == main.call = "PlayFile" /\ main.err = "nil"

\* The session was ended by a Stop() whose teardown ran to its end.
SessionStopped == InSession /\ main.phase = "Stopped"

\* Stopped: no producer task, no stream handle, no decoder.
PlayerStopped ==
    /\ ~ProducerRunning
    /\ fp.stream = "nil"
    /\ fp.decoder = "nil"
    /\ ~dec.open

Count(seq, x) == Cardinality({i \in 1 .. Len(seq) : seq[i] = x})

TeardownSteps ==
    <<"closeStopChan", "join", "stopStream", "closeStream", "closeDecoder">>

Rank(step) == CHOOSE i \in 1 .. Len(TeardownSteps) : TeardownSteps[i] = step

\* C1: in every session, however it ends, the completion signal is fired
\* exactly once and a Wait() made in it returns exactly once.  Stated on the
\* sessions a Stop() has ended: by then the signal has fired once, and a
\* Wait() still blocked has a closed channel to return on.
C1_TerminationExactness ==
    SessionStopped =>
        /\ hist.completeFires = 1
        /\ hist.waitReturns <= 1
        /\ waiter \in {"join", "chan"} => fp.playbackCompleteChan = "closed"

\* C2: whenever a call to Stop() has returned, also one made concurrently
\* with another Stop(), the player is Stopped: producer exited, stream
\* stopped and closed, decoder closed.
C2_StopReturnsStopped ==
    \A s \in Stoppers :
        stopper[s] \in {"returned", "returnedFast"} => PlayerStopped

C4_StopWhenOpened ==
    hist.plays = 0 =>
        /\ ~crashed
        /\ \A s \in Stoppers :
               stopper[s] \in {"returned", "returnedFast"} => fp.decoder = "nil"

\* C7: with a decoder that yields samples and then reports the end of the
\* stream, and a host that keeps invoking the callback, Wait() returns; when
\* it does (nobody having called Stop()), played_samples is the number of
\* samples decoded, the whole file, and the status reports 0 buffered.
C7_DrainCompletes ==
    /\ [][(waiter = "chan" /\ waiter' = "returned" /\ dec.mode = "clean" /\ ~fp.stopped)
            => /\ fp'.playedSamples = hist'.decoded
               /\ fp'.playedSamples = TotalSamples
               /\ GetPlaybackStatus(fp', fp'.producedSamples,
                                    fp'.playedSamples).BufferedSamples = 0]_vars
    /\ (waiter = "join" /\ dec.mode = "clean") ~> (waiter = "returned" \/ fp.stopped)

C7_Witness ==
    /\ waiter = "returned"
    /\ dec.mode = "clean"
    /\ ~fp.stopped
    /\ fp.playedSamples = TotalSamples

\* C8: the steps of a teardown run in the order stop signal, producer join,
\* stream stop, stream close, decoder close; so while the producer task
\* runs the decoder is open and the stream has been neither stopped nor
\* closed.
C8_TeardownOrder ==
    /\ \A i, j \in 1 .. Len(hist.teardown) :
           i < j => Rank(hist.teardown[i]) < Rank(hist.teardown[j])
    /\ ProducerRunning =>
           /\ dec.open
           /\ fp.decoder = "open"
           /\ fp.stream \in {"active", "finished"}

C8_Witness ==
    /\ InSession
    /\ hist.teardown = TeardownSteps
    /\ hist.decoded > 0

\* C9: when PlayFile returns an error, what the call acquired is released:
\* no stream it opened is still open and no producer task runs.
C9_PlayFileFailureReleases ==
    (main.call = "PlayFile"
        /\ main.err \in {"UnsupportedBitDepth", "StreamOpen", "StreamStart"})
    => /\ fp.stream \notin {"open", "active", "finished", "stopped"}
       /\ ~ProducerRunning

\* C10: no invocation of the audio callback allocates: the allocation count
\* of the invocation under way stays 0.
C10_CallbackNoAllocation == hist.cbAllocs = 0

\* ================================================================== rings
\* One producer thread and one consumer thread on one ring, a frame ring
\* (AudioFrameRingBuffer) or a byte ring (RingBuffer).  Every atomic Load
\* and Store and every copy statement is a step of its own.
\*
\* Requested capacity of the ring (New rounds it up to a power of two).
RingCapacity == 3
\* Items (frames or bytes) the producer has to send.
RingItems == 5
\* Most items one Write is given, and most one Read asks for.
RingBatch == 3

\* The k-th item the producer sends (k = 1, 2, ...): frame k-1 of the stress
\* test, or a byte.
RingItem(kind, k) ==
    IF kind = "frame"
    THEN [Format |-> [SampleRate |-> 44100, Channels |-> 2, BitsPerSample |-> 16],
          SamplesCount |-> Uint16(k - 1),
          Audio |-> <<Uint8(k - 1)>>]
    ELSE k

ProducerLocals ==
    [pc |-> "idle", data |-> << >>, w |-> 0, toWrite |-> 0, writePos |-> 0,
     i |-> 0, n |-> 0, err |-> "nil"]

ConsumerLocals ==
    [pc |-> "idle", op |-> "none", n |-> 0, w |-> 0, toRead |-> 0, readPos |-> 0,
     i |-> 0, result |-> << >>, err |-> "nil"]

\* New(capacity) of either ring, with the two threads about to start.
RingNew(kind, capacity) ==
    LET c == nextPowerOf2(capacity)
    IN  [kind |-> kind,
         buffer |-> [i \in 0 .. c - 1 |-> IF kind = "frame" THEN ZeroFrame ELSE 0],
         size |-> c, mask |-> c - 1, writePos |-> 0, readPos |-> 0,
         next |-> 0,      \* items stored by the Writes that returned
         got |-> << >>,   \* items the consumer's calls returned, in order
         p |-> ProducerLocals,
         c |-> ConsumerLocals]

InitRings ==
    /\ fp = NewFilePlayer
    /\ dec = [open |-> FALSE, pos |-> 0, mode |-> "clean"]
    /\ prod = [pc |-> "none", samplesRead |-> 0, toWrite |-> << >>]
    /\ cb = [pc |-> "idle", bytesNeeded |-> 0, bytesWritten |-> 0,
             output |-> << >>, result |-> "none"]
    /\ stopper = [s \in Stoppers |-> "idle"]
    /\ waiter = "idle"
    /\ main = [phase |-> "Idle", call |-> "none", err |-> "nil"]
    /\ hist = HistInit
    /\ crashed = FALSE
    /\ ap = ApIdle
    /\ mon = MonIdle
    /\ call = CallIdle
    /\ \/ ring = RingNew("frame", RingCapacity)
       \/ ring = RingNew("byte", RingCapacity)

\* copy(buffer[from:to], src): min(to - from, len(src)) elements are copied.
CopyToBuffer(buffer, from, to, src) ==
    [k \in DOMAIN buffer |->
        IF k >= from /\ k < from + Min(to - from, Len(src))
        THEN src[k - from + 1] ELSE buffer[k]]

\* A slice of the right length taken from the start of the storage.
BufferSliceFromZero(buffer, from, to) == [j \in 1 .. to - from |-> buffer[j - 1]]

\* buffer[from : to] as a sequence.
BufferSlice(buffer, from, to) == [j \in 1 .. to - from |-> buffer[from + j - 1]]

\* ------------------------------------------------------ producer: Write
\* The producer calls Write with the next items it has to send, at most
\* RingBatch of them (after a short or failed write, the remainder again).
RingWriteCall ==
    /\ ring.kind # "none"
    /\ ring.p.pc = "idle"
    /\ ring.next < RingItems
    /\ \E len \in 1 .. Min(RingBatch, RingItems - ring.next) :
         ring' = [ring EXCEPT !.p = [ProducerLocals EXCEPT
                     !.pc = "availLoadW",
                     !.data = [j \in 1 .. len |-> RingItem(ring.kind, ring.next + j)]]]
    /\ UNCHANGED playerVars

\* AvailableWrite: writePos.Load()
RingWriteAvailLoadW ==
    /\ ring.kind # "none"
    /\ ring.p.pc = "availLoadW"
    /\ ring' = [ring EXCEPT !.p.w = ring.writePos, !.p.pc = "availLoadR"]
    /\ UNCHANGED playerVars

\* A Write decision that, on either ring, takes what fits.
RingWriteAvailLoadRPartial ==
    /\ ring.kind # "none"
    /\ ring.p.pc = "availLoadR"
    /\ LET available == AvailableWrite([size |-> ring.size, writePos |-> ring.p.w,
                                        readPos |-> ring.readPos])
           dataLen == Len(ring.p.data)
           toWrite == Min(dataLen, available)
       IN  IF toWrite = 0
           THEN ring' = [ring EXCEPT !.p = [ProducerLocals EXCEPT
                                              !.err = "ErrInsufficientSpace"]]
           ELSE ring' = [ring EXCEPT !.p.toWrite = toWrite, !.p.pc = "loadW"]
    /\ UNCHANGED playerVars

\* AvailableWrite: readPos.Load(), the space, and what Write decides on it:
\* the frame ring writes what fits, the byte ring all or nothing.
RingWriteAvailLoadR ==
    /\ ring.kind # "none"
    /\ ring.p.pc = "availLoadR"
    /\ LET available == AvailableWrite([size |-> ring.size, writePos |-> ring.p.w,
                                        readPos |-> ring.readPos])
           dataLen == Len(ring.p.data)
           toWrite == IF ring.kind = "frame" THEN Min(dataLen, available)
                      ELSE IF dataLen > available THEN 0 ELSE dataLen
       IN  IF toWrite = 0
           THEN ring' = [ring EXCEPT !.p = [ProducerLocals EXCEPT
                                              !.err = "ErrInsufficientSpace"]]
           ELSE ring' = [ring EXCEPT !.p.toWrite = toWrite, !.p.pc = "loadW"]
    /\ UNCHANGED playerVars

\* writePos := rb.writePos.Load()
RingWriteLoadW ==
    /\ ring.kind # "none"
    /\ ring.p.pc = "loadW"
    /\ ring' = [ring EXCEPT !.p.writePos = ring.writePos, !.p.i = 0, !.p.pc = "copy"]
    /\ UNCHANGED playerVars

\* Frame ring: one iteration of the copy loop (slot := frame, payload copied).
RingWriteCopyFrame ==
    /\ ring.kind = "frame"
    /\ ring.p.pc = "copy"
    /\ LET pos == BitAnd(ring.p.writePos + ring.p.i, ring.mask)
       IN  ring' = [ring EXCEPT
                      !.buffer[pos] = ring.p.data[ring.p.i + 1],
                      !.p.i = @ + 1,
                      !.p.pc = IF ring.p.i + 1 < ring.p.toWrite THEN "copy" ELSE "store"]
    /\ UNCHANGED playerVars

\* Byte ring: one copy statement: the single contiguous copy, or the first
\* and then the second chunk of a write that wraps.
RingWriteCopyBytes ==
    /\ ring.kind = "byte"
    /\ ring.p.pc = "copy"
    /\ LET dataLen == Len(ring.p.data)
           start == BitAnd(ring.p.writePos, ring.mask)
           end == BitAnd(ring.p.writePos + dataLen, ring.mask)
           firstChunk == ring.size - start
       IN  IF end > start
           THEN ring' = [ring EXCEPT
                           !.buffer = CopyToBuffer(@, start, end, ring.p.data),
                           !.p.pc = "store"]
           ELSE IF ring.p.i = 0
           THEN ring' = [ring EXCEPT
                           !.buffer = CopyToBuffer(@, start, ring.size,
                                                   SubSeq(ring.p.data, 1, firstChunk)),
                           !.p.i = 1]
           ELSE ring' = [ring EXCEPT
                           !.buffer = CopyToBuffer(@, 0, end,
                                          SubSeq(ring.p.data, firstChunk + 1, dataLen)),
                           !.p.pc = "store"]
    /\ UNCHANGED playerVars

\* A Store of the index into the storage instead of the position.
RingWriteStoreMasked ==
    /\ ring.kind # "none"
    /\ ring.p.pc = "store"
    /\ ring' = [ring EXCEPT
                  !.writePos = BitAnd(ring.p.writePos + ring.p.toWrite, ring.mask),
                  !.next = @ + ring.p.toWrite,
                  !.p = [ProducerLocals EXCEPT !.n = ring.p.toWrite]]
    /\ UNCHANGED playerVars

\* rb.writePos.Store(writePos + toWrite); Write returns toWrite.
RingWriteStore ==
    /\ ring.kind # "none"
    /\ ring.p.pc = "store"
    /\ ring' = [ring EXCEPT
                  !.writePos = ring.p.writePos + ring.p.toWrite,
                  !.next = @ + ring.p.toWrite,
                  !.p = [ProducerLocals EXCEPT !.n = ring.p.toWrite]]
    /\ UNCHANGED playerVars

\* --------------------------------------- consumer: Read, ReadSlices, Consume
\* The consumer calls Read for at most RingBatch items or, on the byte ring,
\* ReadSlices followed by Consume(total).
RingReadCall ==
    /\ ring.kind # "none"
    /\ ring.c.pc = "idle"
    /\ Len(ring.got) < RingItems
    /\ \/ \E n \in 1 .. RingBatch :
            ring' = [ring EXCEPT !.c = [ConsumerLocals EXCEPT
                        !.pc = "availLoadW", !.op = "Read", !.n = n]]
       \/ /\ ring.kind = "byte"
          /\ ring' = [ring EXCEPT !.c = [ConsumerLocals EXCEPT
                        !.pc = "availLoadW", !.op = "ReadSlices"]]
    /\ UNCHANGED playerVars

\* AvailableRead: writePos.Load()
RingReadAvailLoadW ==
    /\ ring.kind # "none"
    /\ ring.c.pc = "availLoadW"
    /\ ring' = [ring EXCEPT !.c.w = ring.writePos, !.c.pc = "availLoadR"]
    /\ UNCHANGED playerVars

\* AvailableRead: readPos.Load(), the count, and what the call decides on it.
RingReadAvailLoadR ==
    /\ ring.kind # "none"
    /\ ring.c.pc = "availLoadR"
    /\ LET available == AvailableRead([writePos |-> ring.c.w, readPos |-> ring.readPos])
       IN  CASE ring.c.op = "Read" ->
                  IF available = 0
                  THEN ring' = [ring EXCEPT !.c = [ConsumerLocals EXCEPT
                                                     !.err = "ErrInsufficientData"]]
                  ELSE ring' = [ring EXCEPT !.c.toRead = Min(ring.c.n, available),
                                            !.c.pc = "loadR"]
             [] ring.c.op = "ReadSlices" ->
                  IF available = 0
                  THEN ring' = [ring EXCEPT !.c = ConsumerLocals]
                  ELSE ring' = [ring EXCEPT !.c.toRead = available, !.c.pc = "loadR"]
             [] ring.c.op = "Consume" ->
                  IF ring.c.n > available
                  THEN ring' = [ring EXCEPT !.c = [ConsumerLocals EXCEPT
                                                     !.err = "ErrInsufficientData"]]
                  ELSE ring' = [ring EXCEPT !.c.toRead = ring.c.n, !.c.pc = "loadR"]
    /\ UNCHANGED playerVars

\* readPos := rb.readPos.Load()
RingReadLoadR ==
    /\ ring.kind # "none"
    /\ ring.c.pc = "loadR"
    /\ ring' = [ring EXCEPT
                  !.c.readPos = ring.readPos,
                  !.c.i = 0,
                  !.c.pc = CASE ring.c.op = "Read" -> "copy"
                             [] ring.c.op = "ReadSlices" -> "slices"
                             [] ring.c.op = "Consume" -> "store"]
    /\ UNCHANGED playerVars

\* Frame ring: one iteration of Read's copy loop.
RingReadCopyFrame ==
    /\ ring.kind = "frame"
    /\ ring.c.pc = "copy"
    /\ LET pos == BitAnd(ring.c.readPos + ring.c.i, ring.mask)
       IN  ring' = [ring EXCEPT
                      !.c.result = Append(@, ring.buffer[pos]),
                      !.c.i = @ + 1,
                      !.c.pc = IF ring.c.i + 1 < ring.c.toRead THEN "copy" ELSE "store"]
    /\ UNCHANGED playerVars

\* Byte ring: one copy statement of Read.
RingReadCopyBytes ==
    /\ ring.kind = "byte"
    /\ ring.c.pc = "copy"
    /\ LET start == BitAnd(ring.c.readPos, ring.mask)
           end == BitAnd(ring.c.readPos + ring.c.toRead, ring.mask)
           firstChunk == ring.size - start
       IN  IF end > start
           THEN ring' = [ring EXCEPT
                           !.c.result = BufferSlice(ring.buffer, start, end),
                           !.c.pc = "store"]
           ELSE IF ring.c.i = 0
           THEN ring' = [ring EXCEPT
                           !.c.result = BufferSlice(ring.buffer, start, ring.size),
                           !.c.i = 1]
           ELSE ring' = [ring EXCEPT
                           !.c.result = SubSeq(@, 1, firstChunk)
                                          \o SubSeq(BufferSlice(ring.buffer, 0, end), 1,
                                                    Min(end, ring.c.toRead - firstChunk)),
                           !.c.pc = "store"]
    /\ UNCHANGED playerVars

\* ReadSlices returns its two views; the consumer takes the bytes it sees in
\* them and then calls Consume(total).
RingReadSlices ==
    /\ ring.kind = "byte"
    /\ ring.c.pc = "slices"
    /\ LET start == BitAnd(ring.c.readPos, ring.mask)
           end == BitAnd(ring.c.readPos + ring.c.toRead, ring.mask)
           first == IF end > start THEN BufferSlice(ring.buffer, start, end)
                    ELSE BufferSlice(ring.buffer, start, ring.size)
           second == IF end > start THEN << >> ELSE BufferSlice(ring.buffer, 0, end)
       IN  ring' = [ring EXCEPT !.c = [ConsumerLocals EXCEPT
                        !.pc = "availLoadW", !.op = "Consume",
                        !.n = ring.c.toRead, !.result = first \o second]]
    /\ UNCHANGED playerVars

\* rb.readPos.Store(readPos + toRead); the call returns and the consumer has
\* the items.
RingReadStore ==
    /\ ring.kind # "none"
    /\ ring.c.pc = "store"
    /\ ring' = [ring EXCEPT
                  !.readPos = ring.c.readPos + ring.c.toRead,
                  !.got = @ \o ring.c.result,
                  !.c = [ConsumerLocals EXCEPT !.n = ring.c.toRead]]
    /\ UNCHANGED playerVars

RingProducer ==
    \/ RingWriteCall
    \/ RingWriteAvailLoadW
    \/ RingWriteAvailLoadR
    \/ RingWriteLoadW
    \/ RingWriteCopyFrame
    \/ RingWriteCopyBytes
    \/ RingWriteStore

RingConsumer ==
    \/ RingReadCall
    \/ RingReadAvailLoadW
    \/ RingReadAvailLoadR
    \/ RingReadLoadR
    \/ RingReadCopyFrame
    \/ RingReadCopyBytes
    \/ RingReadSlices
    \/ RingReadStore

NextRings == RingProducer \/ RingConsumer

SpecRings == InitRings /\ [][NextRings]_vars

\* ============================================================ ring claims
\* The first n items the producer sends.
RingSent(kind, n) == [k \in 1 .. n |-> RingItem(kind, k)]

\* C5: with one producer calling the frame ring's Write (the remainder again
\* after a short or failed write) and one consumer calling Read, under every
\* interleaving the consumer has received exactly the frames written so far,
\* in write order and with their payloads, none lost, repeated or reordered.
C5_FrameRingFifo ==
    ring.kind = "frame" =>
        /\ ring.got = RingSent("frame", Len(ring.got))
        /\ Len(ring.got) = ring.readPos
        /\ ring.next = ring.writePos
        /\ Len(ring.got) <= ring.next

C5_Witness ==
    /\ ring.kind = "frame"
    /\ ring.got = RingSent("frame", RingItems)
    /\ ring.readPos > ring.size

\* C6: for the byte ring and the frame ring, in every state reached by one
\* producer's Writes and one consumer's Reads and Consumes,
\* write_pos >= read_pos and write_pos - read_pos <= capacity.
C6_CapacityBound ==
    ring.kind \in {"frame", "byte"} =>
        /\ ring.writePos >= ring.readPos
        /\ ring.writePos - ring.readPos <= ring.size

C6_Witness ==
    /\ ring.kind = "byte"
    /\ ring.readPos > 0
    /\ ring.writePos - ring.readPos = ring.size
    /\ ring.c.pc = "store"

\* ===================================================== byte ring, as calls
\* RingBuffer (the byte ring) with each call taken as one step: a ring is
\* [buffer, size, mask, writePos, readPos]; buffer is indexed 0 .. size-1.
ByteRingNew(size) ==
    LET c == nextPowerOf2(size)
    IN  [buffer |-> [i \in 0 .. c - 1 |-> 0],
         size |-> c, mask |-> c - 1, writePos |-> 0, readPos |-> 0]

\* Write(data): [rb, n, err]
ByteRingWrite(rb, data) ==
    LET dataLen == Len(data)
        available == AvailableWrite(rb)
        start == BitAnd(rb.writePos, rb.mask)
        end == BitAnd(rb.writePos + dataLen, rb.mask)
        firstChunk == rb.size - start
        stored ==
            IF end > start
            THEN CopyToBuffer(rb.buffer, start, end, data)
            ELSE CopyToBuffer(
                     CopyToBuffer(rb.buffer, start, rb.size, SubSeq(data, 1, firstChunk)),
                     0, end, SubSeq(data, firstChunk + 1, dataLen))
    IN  IF dataLen = 0 THEN [rb |-> rb, n |-> 0, err |-> "nil"]
        ELSE IF dataLen > available
        THEN [rb |-> rb, n |-> 0, err |-> "ErrInsufficientSpace"]
        ELSE [rb |-> [rb EXCEPT !.buffer = stored, !.writePos = rb.writePos + dataLen],
              n |-> dataLen, err |-> "nil"]

\* Read(data) with len(data) = dataLen: [rb, data (the bytes put in data[:n]), n, err]
ByteRingRead(rb, dataLen) ==
    LET available == AvailableRead(rb)
        toRead == Min(dataLen, available)
        start == BitAnd(rb.readPos, rb.mask)
        end == BitAnd(rb.readPos + toRead, rb.mask)
        firstChunk == rb.size - start
        bytes ==
            IF end > start
            THEN BufferSlice(rb.buffer, start, end)
            ELSE BufferSlice(rb.buffer, start, rb.size)
                     \o SubSeq(BufferSlice(rb.buffer, 0, end), 1,
                               Min(end, toRead - firstChunk))
    IN  IF dataLen = 0 THEN [rb |-> rb, data |-> << >>, n |-> 0, err |-> "nil"]
        ELSE IF available = 0
        THEN [rb |-> rb, data |-> << >>, n |-> 0, err |-> "ErrInsufficientData"]
        ELSE [rb |-> [rb EXCEPT !.readPos = rb.readPos + toRead],
              data |-> bytes, n |-> toRead, err |-> "nil"]

\* ======================================================= audioplayer.Player
\* The blocking-I/O player: a producer goroutine decodes into a byte ring, a
\* consumer goroutine reads the ring and writes to the stream.
\*
\* Successful DecodeSamples calls before the decoder reports end of file.
ApChunks == 2
\* Samples one DecodeSamples call returns (audioSamples, scaled).
ApAudioSamples == 1
\* Config.BufferSize and Config.FramesPerBuffer.
ApBufferSize == 2
ApFramesPerBuffer == 1
\* Format of the file: one channel of 16-bit samples.
ApChannels == 1
ApBitsPerSample == 16

\* Threads that call Player.Stop: the producer itself at end of file, and
\* the thread that owns the player.
ApCallers == {"producer", "main"}

\* NewPlayer(config)
NewPlayer ==
    [kind |-> "player",
     decoder |-> "nil", decPos |-> 0,
     ringbuf |-> ByteRingNew(ApBufferSize),
     stream |-> "nil",
     channels |-> 0, bitsPerSample |-> 0, bytesPerSample |-> 0,
     framesPerBuffer |-> ApFramesPerBuffer,
     stopChan |-> "open", wg |-> 0, stopped |-> FALSE,
     samplesConsumed |-> 0,
     prod |-> [pc |-> "none", data |-> << >>],
     cons |-> [pc |-> "none", frames |-> 0],
     stop |-> [c \in ApCallers |-> "idle"],
     waiter |-> "idle",
     playErr |-> "none",
     eof |-> FALSE,        \* DecodeSamples has reported end of file
     panicked |-> FALSE]

nonApVars == <<fp, dec, prod, cb, stopper, waiter, main, hist, crashed, ring, mon, call>>

InitAudioPlayer ==
    /\ fp = NewFilePlayer
    /\ dec = [open |-> FALSE, pos |-> 0, mode |-> "clean"]
    /\ prod = [pc |-> "none", samplesRead |-> 0, toWrite |-> << >>]
    /\ cb = [pc |-> "idle", bytesNeeded |-> 0, bytesWritten |-> 0,
             output |-> << >>, result |-> "none"]
    /\ stopper = [s \in Stoppers |-> "idle"]
    /\ waiter = "idle"
    /\ main = [phase |-> "Idle", call |-> "none", err |-> "nil"]
    /\ hist = HistInit
    /\ crashed = FALSE
    /\ ring = RingIdle
    /\ ap = NewPlayer
    /\ mon = MonIdle
    /\ call = CallIdle

ApLive == ap.kind = "player" /\ ~ap.panicked

\* OpenDecoder(decoder): the format is taken from the decoder.
ApOpenDecoder ==
    /\ ApLive
    /\ ap.decoder = "nil"
    /\ ap.playErr = "none"
    /\ ap' = [ap EXCEPT !.decoder = "open",
                        !.channels = ApChannels,
                        !.bitsPerSample = ApBitsPerSample,
                        !.bytesPerSample = ApBitsPerSample \div 8]
    /\ UNCHANGED nonApVars

\* Play(): initStream, StartStream, then the two goroutines are started.
ApPlay ==
    /\ ApLive
    /\ ap.playErr = "none"
    /\ ap.stop["main"] = "idle"
    /\ IF ap.decoder = "nil"
       THEN ap' = [ap EXCEPT !.playErr = "NoFileOpened"]
       ELSE \E initOk \in BOOLEAN, startOk \in BOOLEAN :
              IF ~(ap.bitsPerSample \in {16, 24, 32} /\ initOk)
              THEN ap' = [ap EXCEPT !.playErr = "InitStream"]
              ELSE IF ~startOk
              THEN ap' = [ap EXCEPT !.stream = "open", !.playErr = "StartStream"]
              ELSE ap' = [ap EXCEPT !.stream = "active",
                                    !.samplesConsumed = 0,
                                    !.wg = @ + 2,
                                    !.prod = [pc |-> "select", data |-> << >>],
                                    !.cons = [pc |-> "select", frames |-> 0],
                                    !.playErr = "nil"]
    /\ UNCHANGED nonApVars

\* The bytes the k-th successful DecodeSamples call puts in the buffer.
ApDecoded(k) ==
    [j \in 1 .. ApAudioSamples * ap.channels * ap.bytesPerSample |->
        ((k - 1) * ApAudioSamples * ap.channels * ap.bytesPerSample + j) % 256]

\* ------------------------------------------------------- Player.producer
\* select on stopChan at the top of the loop
ApProducerSelect ==
    /\ ApLive
    /\ ap.prod.pc = "select"
    /\ ap' = [ap EXCEPT !.prod.pc = IF ap.stopChan = "closed" THEN "deferDone" ELSE "decode"]
    /\ UNCHANGED nonApVars

\* DecodeSamples: samples, or end of file (after the last chunk) or an
\* error (at any call); the latter two are followed by the sleep and the
\* call of p.Stop().
ApProducerDecode ==
    /\ ApLive
    /\ ap.prod.pc = "decode"
    /\ \/ /\ ap.decPos < ApChunks
          /\ ap' = [ap EXCEPT !.decPos = @ + 1,
                              !.prod = [pc |-> "write", data |-> ApDecoded(ap.decPos + 1)]]
       \/ /\ ap' = [ap EXCEPT !.eof = (ap.decPos = ApChunks),
                              !.prod.pc = "stop",
                              !.stop["producer"] = "enter"]
    /\ UNCHANGED nonApVars

\* p.ringbuf.Write(buffer[:bytesToWrite])
ApProducerWrite ==
    /\ ApLive
    /\ ap.prod.pc = "write"
    /\ LET r == ByteRingWrite(ap.ringbuf, ap.prod.data)
       IN  ap' = [ap EXCEPT !.ringbuf = r.rb,
                            !.prod = IF r.err = "nil"
                                     THEN [pc |-> "select", data |-> << >>]
                                     ELSE [@ EXCEPT !.pc = "retry"]]
    /\ UNCHANGED nonApVars

\* Buffer full: select on stopChan, else sleep and try again.
ApProducerRetry ==
    /\ ApLive
    /\ ap.prod.pc = "retry"
    /\ ap' = [ap EXCEPT !.prod.pc = IF ap.stopChan = "closed" THEN "deferDone" ELSE "write"]
    /\ UNCHANGED nonApVars

\* p.Stop() has returned to the producer: return
ApProducerStopReturned ==
    /\ ApLive
    /\ ap.prod.pc = "stop"
    /\ ap.stop["producer"] = "returned"
    /\ ap' = [ap EXCEPT !.prod.pc = "deferDone"]
    /\ UNCHANGED nonApVars

\* defer p.wg.Done()
ApProducerDeferDone ==
    /\ ApLive
    /\ ap.prod.pc = "deferDone"
    /\ ap' = [ap EXCEPT !.wg = @ - 1, !.prod.pc = "exited"]
    /\ UNCHANGED nonApVars

\* ------------------------------------------------------- Player.consumer
\* select on stopChan; then GetFormat and reconfigureStreamIfNeeded, which
\* returns nil for the unchanged format of the file.
ApConsumerSelect ==
    /\ ApLive
    /\ ap.cons.pc = "select"
    /\ ap' = [ap EXCEPT !.cons.pc = IF ap.stopChan = "closed" THEN "deferDone" ELSE "read"]
    /\ UNCHANGED nonApVars

\* p.ringbuf.Read(buffer[:bufferSize]) and the alignment to whole frames
ApConsumerRead ==
    /\ ApLive
    /\ ap.cons.pc = "read"
    /\ LET bytesPerFrame == ap.channels * ap.bytesPerSample
           r == ByteRingRead(ap.ringbuf, ap.framesPerBuffer * bytesPerFrame)
           frames == r.n \div bytesPerFrame
       IN  ap' = [ap EXCEPT !.ringbuf = r.rb,
                            !.cons = IF r.err # "nil" \/ frames = 0
                                     THEN [pc |-> "select", frames |-> 0]
                                     ELSE [pc |-> "streamWrite", frames |-> frames]]
    /\ UNCHANGED nonApVars

\* p.stream.Write(frames, buffer[:bytesAligned]); an error ends the consumer.
ApConsumerStreamWrite ==
    /\ ApLive
    /\ ap.cons.pc = "streamWrite"
    /\ \E ok \in BOOLEAN :
         IF ok
         THEN ap' = [ap EXCEPT !.samplesConsumed = @ + ap.cons.frames,
                               !.cons = [pc |-> "select", frames |-> 0]]
         ELSE ap' = [ap EXCEPT !.cons = [pc |-> "deferDone", frames |-> 0]]
    /\ UNCHANGED nonApVars

\* defer p.wg.Done()
ApConsumerDeferDone ==
    /\ ApLive
    /\ ap.cons.pc = "deferDone"
    /\ ap' = [ap EXCEPT !.wg = @ - 1, !.cons.pc = "exited"]
    /\ UNCHANGED nonApVars

\* ------------------------------------------------------------ Player.Stop
\* The owner thread calls Stop().
ApStopCall ==
    /\ ApLive
    /\ ap.stop["main"] = "idle"
    /\ ap' = [ap EXCEPT !.stop["main"] = "enter"]
    /\ UNCHANGED nonApVars

\* mu.Lock(); if stopped { return nil }; stopped = true; mu.Unlock()
ApStopEnter(c) ==
    /\ ApLive
    /\ ap.stop[c] = "enter"
    /\ ap' = [ap EXCEPT !.stopped = TRUE,
                        !.stop[c] = IF ap.stopped THEN "returned" ELSE "closeChan"]
    /\ UNCHANGED nonApVars

\* close(p.stopChan)
ApStopCloseChan(c) ==
    /\ ApLive
    /\ ap.stop[c] = "closeChan"
    /\ IF ap.stopChan = "closed"
       THEN ap' = [ap EXCEPT !.panicked = TRUE]
       ELSE ap' = [ap EXCEPT !.stopChan = "closed", !.stop[c] = "join"]
    /\ UNCHANGED nonApVars

\* p.wg.Wait()
ApStopJoin(c) ==
    /\ ApLive
    /\ ap.stop[c] = "join"
    /\ ap.wg = 0
    /\ ap' = [ap EXCEPT !.stop[c] = "stream"]
    /\ UNCHANGED nonApVars

\* if p.stream != nil { StopStream(); Close() }
ApStopStream(c) ==
    /\ ApLive
    /\ ap.stop[c] = "stream"
    /\ ap' = [ap EXCEPT !.stream = IF @ = "nil" THEN @ ELSE "closed",
                        !.stop[c] = "decoder"]
    /\ UNCHANGED nonApVars

\* if p.decoder != nil { decoder.Close() }; return nil
ApStopDecoder(c) ==
    /\ ApLive
    /\ ap.stop[c] = "decoder"
    /\ ap' = [ap EXCEPT !.decoder = IF @ = "nil" THEN @ ELSE "closed",
                        !.stop[c] = "returned"]
    /\ UNCHANGED nonApVars

\* ------------------------------------------------------------ Player.Wait
\* A caller enters Wait() while the player plays.
ApWaitCall ==
    /\ ApLive
    /\ ap.playErr = "nil"
    /\ ap.waiter = "idle"
    /\ ap' = [ap EXCEPT !.waiter = "waiting"]
    /\ UNCHANGED nonApVars

\* p.wg.Wait() returns
ApWaitReturn ==
    /\ ApLive
    /\ ap.waiter = "waiting"
    /\ ap.wg = 0
    /\ ap' = [ap EXCEPT !.waiter = "returned"]
    /\ UNCHANGED nonApVars

ApProducer ==
    \/ ApProducerSelect
    \/ ApProducerDecode
    \/ ApProducerWrite
    \/ ApProducerRetry
    \/ ApProducerStopReturned
    \/ ApProducerDeferDone

ApConsumer ==
    \/ ApConsumerSelect
    \/ ApConsumerRead
    \/ ApConsumerStreamWrite
    \/ ApConsumerDeferDone

ApStopSteps(c) ==
    \/ ApStopEnter(c)
    \/ ApStopCloseChan(c)
    \/ ApStopJoin(c)
    \/ ApStopStream(c)
    \/ ApStopDecoder(c)

NextAudioPlayer ==
    \/ ApOpenDecoder
    \/ ApPlay
    \/ ApProducer
    \/ ApConsumer
    \/ ApStopCall
    \/ \E c \in ApCallers : ApStopSteps(c)
    \/ ApWaitCall
    \/ ApWaitReturn

SpecAudioPlayer == InitAudioPlayer /\ [][NextAudioPlayer]_vars

\* Every goroutine that can take a step eventually takes one; nothing makes
\* the owner thread call Stop() or Wait().
FairSpecAudioPlayer ==
    /\ SpecAudioPlayer
    /\ WF_vars(ApProducer)
    /\ WF_vars(ApConsumer)
    /\ \A c \in ApCallers : WF_vars(ApStopSteps(c))
    /\ WF_vars(ApWaitReturn)

\* C11: in the blocking-I/O player, once the decoder has reached end of
\* file and no other thread calls Stop(), the producer and the consumer
\* both exit and a caller blocked in Wait() returns.
C11_EofStopsPlayer ==
    (ap.kind = "player" /\ ap.eof /\ ap.stop["main"] = "idle")
        ~> (\/ ap.stop["main"] # "idle"
            \/ /\ ap.prod.pc = "exited"
               /\ ap.cons.pc = "exited"
               /\ ap.waiter # "waiting")

\* ===================================================== FilePlayer claims, 2
\* C12: an invocation of the callback that finds the ring empty, no frame
\* partly consumed and producer_done unset does not take the completion
\* branch; an invocation that goes through the fill loop returns Continue
\* (never an error or abort result) with every output byte past
\* bytesWritten zero.
C12_UnderrunContinues ==
    [][/\ (/\ cb.pc = "idle"
           /\ hist'.plays = hist.plays
           /\ ~fp.producerDone
           /\ AvailableRead(fp.ringbuf) = 0
           /\ fp.currentFrame = NilFrame)
          => /\ cb' = cb \/ (cb'.pc = "fill" /\ cb'.result = "none")
             /\ fp'.playbackComplete = fp.playbackComplete
             /\ fp'.playbackCompleteChan = fp.playbackCompleteChan
       /\ (cb.pc \in {"fill", "finish"} /\ cb'.pc = "idle")
          => /\ cb'.result = "Continue"
             /\ \A i \in 1 .. cb'.bytesNeeded :
                  i > cb'.bytesWritten => cb'.output[i] = 0]_vars

C12_Witness ==
    /\ cb.pc = "idle"
    /\ cb.result = "Continue"
    /\ cb.bytesNeeded > 0
    /\ cb.bytesWritten = 0
    /\ \A i \in 1 .. cb.bytesNeeded : cb.output[i] = 0
    /\ ~fp.producerDone
    /\ fp.stream = "active"

\* C13: within one session the completion signal is closed at most once
\* and nothing panics on a second close; once closed it stays closed until
\* a PlayFile (which starts the next session) makes a fresh one.
C13_CompletionFiresOnce ==
    [][/\ hist'.completeFires <= 1
       /\ (fp.playbackCompleteChan = "closed" /\ fp'.playbackCompleteChan # "closed")
          => (hist'.plays = hist.plays + 1 /\ fp'.playbackCompleteChan = "open")
       /\ (fp.playbackCompleteChan = "closed" /\ hist'.plays = hist.plays)
          => (hist'.completeFires = hist.completeFires /\ crashed' = crashed)]_vars

C13_Witness ==
    /\ hist.plays = 2
    /\ hist.completeFires = 1
    /\ fp.playbackCompleteChan = "closed"
    /\ cb.result = "Complete"
    /\ ~crashed

\* ------------------------------------------------------ GetPlaybackStatus
\* A monitor thread (monitorPlayback) calls GetPlaybackStatus while the
\* player runs: the two counter loads are two steps.
\*
\* produced := fp.producedSamples.Load()
MonitorLoadProduced ==
    /\ ~crashed
    /\ main.phase = "Playing"
    /\ mon.pc = "idle"
    /\ mon' = [mon EXCEPT !.pc = "loaded", !.produced = fp.producedSamples]
    /\ UNCHANGED <<fp, dec, prod, cb, stopper, waiter, main, hist, crashed, ring, ap, call>>

\* played := fp.playedSamples.Load(); the status is built and returned.
MonitorReturn ==
    /\ ~crashed
    /\ mon.pc = "loaded"
    /\ mon' = [mon EXCEPT
                 !.pc = "idle",
                 !.status = [made |-> TRUE,
                             st |-> GetPlaybackStatus(fp, mon.produced, fp.playedSamples)]]
    /\ UNCHANGED <<fp, dec, prod, cb, stopper, waiter, main, hist, crashed, ring, ap, call>>

Monitor == MonitorLoadProduced \/ MonitorReturn

\* The player with its producer, its callback, one caller of Stop and the
\* monitor thread.
NextStatus ==
    \/ OpenFile
    \/ PlayFile
    \/ Producer
    \/ Callback
    \/ Stop(1)
    \/ Monitor

SpecStatus == Init /\ [][NextStatus]_vars

\* C14: every GetPlaybackStatus call, whatever the producer and the callback
\* did to the counters between its two loads, returns buffered_samples >= 0
\* and no wrapped value: produced - played of the two loaded values when
\* produced > played, 0 otherwise (so never more than the samples produced).
C14_BufferedNeverWraps ==
    [][(mon.pc = "loaded" /\ mon'.pc = "idle")
         => /\ mon'.status.st.PlayedSamples = fp.playedSamples
            /\ mon'.status.st.BufferedSamples >= 0
            /\ mon'.status.st.BufferedSamples <= mon.produced
            /\ mon.produced > fp.playedSamples
                 => mon'.status.st.BufferedSamples = mon.produced - fp.playedSamples
            /\ mon.produced <= fp.playedSamples
                 => mon'.status.st.BufferedSamples = 0]_vars

\* A call whose played count was loaded after the callback had overtaken
\* the produced count it had loaded first.
C14_Witness ==
    /\ mon.pc = "idle"
    /\ mon.status.made
    /\ mon.status.st.PlayedSamples > mon.produced
    /\ mon.status.st.BufferedSamples = 0

\* A join of the producer returns in this step: Stop's or Wait's wg.Wait().
JoinReturns ==
    \/ \E s \in Stoppers : stopper[s] = "join" /\ stopper'[s] # "join"
    \/ waiter = "join" /\ waiter' # "join"

\* C15: on every exit path of the producer producer_done is set, and it is
\* set before the producer's join completes: in a session whose producer
\* was started, the producer has set it when it signs off from the wait
\* group, and whoever returns from joining the producer finds it set.
C15_ProducerDoneOnExit ==
    [][/\ (prod.pc # "exited" /\ prod'.pc = "exited") => fp'.producerDone
       /\ (InSession /\ prod.pc \in {"deferWg", "exited"}) => fp.producerDone
       /\ (InSession /\ JoinReturns)
            => (fp.producerDone /\ fp'.producerDone /\ prod.pc = "exited")]_vars

\* A Stop() has come back from the join of a producer that left on the stop
\* check of its write loop, its frame still unwritten.
C15_Witness ==
    /\ InSession
    /\ prod.pc = "exited"
    /\ Len(prod.toWrite) > 0
    /\ fp.producerDone
    /\ \E s \in Stoppers : stopper[s] \in {"stopStream", "closeStream", "closeDecoder"}

\* The producer alone is scheduled: the callback may never run again, so a
\* full ring may stay full.
FairSpecProducer == Spec /\ WF_vars(Producer)

\* C16: while the producer retries a write it looks at the stop signal
\* between every two Write attempts (a Write is followed by the stop check,
\* and the check leads to the next Write only with the signal not raised);
\* so once the stop signal is raised the producer exits, even if the ring
\* never regains free space.
C16_StopSeenBetweenRetries ==
    /\ [][/\ (prod.pc = "write" /\ prod' # prod) => prod'.pc \in {"count", "check"}
          /\ (prod.pc = "count" /\ prod' # prod) => prod'.pc = "check"
          /\ (prod.pc = "check" /\ prod'.pc = "write") => fp.stopChan # "closed"]_vars
    /\ (fp.stopChan = "closed" /\ ProducerRunning) ~> (~ProducerRunning \/ crashed)

\* The producer has left its write loop on the stop signal with the ring
\* still full.
C16_Witness ==
    /\ fp.stopChan = "closed"
    /\ prod.pc = "exited"
    /\ Len(prod.toWrite) > 0
    /\ AvailableWrite(fp.ringbuf) = 0

\* DecodeSamples has failed in the middle of the stream and the producer is
\* on its way out.
DecodeFailedMidStream ==
    /\ InSession
    /\ main.phase = "Playing"
    /\ dec.mode = "error"
    /\ dec.pos < TotalSamples
    /\ prod.pc \in {"deferDone", "deferWg", "exited"}
    /\ prod.samplesRead = 0
    /\ fp.stopChan = "open"

\* C17: a DecodeSamples error in the middle of the stream is reported to no
\* caller (the step changes nothing the owner sees and nothing panics); the
\* producer sets producer_done and exits; the frames already in the ring
\* are played, and the session ends on the end-of-stream path: the callback
\* returns Complete and Wait() returns, with every decoded sample played.
C17_DecodeErrorEndsNormally ==
    /\ [][/\ (prod.pc = "decode" /\ prod'.pc = "deferDone")
               => (main' = main /\ crashed' = crashed /\ fp' = fp)
          /\ (DecodeFailedMidStream /\ waiter = "chan" /\ waiter' = "returned")
               => /\ fp'.producerDone
                  /\ prod'.pc = "exited"
                  /\ cb'.result = "Complete"
                  /\ fp'.playedSamples = hist'.decoded
                  /\ AvailableRead(fp'.ringbuf) = 0
                  /\ main'.err = "nil"]_vars
    /\ DecodeFailedMidStream
         ~> (\/ fp.playbackComplete /\ waiter \notin {"join", "chan"}
             \/ fp.stopped)

\* Wait() has returned in a session whose decoder failed after delivering
\* a part of the stream, all of which was played.
C17_Witness ==
    /\ DecodeFailedMidStream
    /\ waiter = "returned"
    /\ ~fp.stopped
    /\ dec.pos > 0
    /\ fp.playedSamples = dec.pos
    /\ cb.result = "Complete"

\* An OpenFile call returns an error in this step.
OpenFileFails ==
    /\ main' # main
    /\ main'.call = "OpenFile"
    /\ main'.err = "OpenFailed"

\* C18 as stated: when OpenFile fails the player is in the state it was in
\* before the call (Idle stays Idle, Opened stays Opened, with the decoder
\* it held) and no new decoder is installed.
C18_OpenFileFailureKeepsState ==
    [][OpenFileFails
         => /\ main'.phase = main.phase
            /\ fp'.decoder = fp.decoder
            /\ dec' = dec]_vars

\* C18, amended: when OpenFile fails no new decoder is installed, and the
\* decoder held before the call has been closed and dropped: the player
\* holds no decoder (an Opened player is back in Idle; a following PlayFile
\* finds no file opened), the format fields are those of the last
\* successful OpenFile.
C18_OpenFileFailureDropsDecoder ==
    [][OpenFileFails
         => /\ fp'.decoder = "nil"
            /\ ~dec'.open
            /\ main'.phase # "Opened"
            /\ main.phase \in {"Idle", "Opened"} => main'.phase = "Idle"
            /\ fp' = [fp EXCEPT !.decoder = "nil"]
            /\ dec'.pos = dec.pos /\ dec'.mode = dec.mode]_vars

\* OpenFile has failed on a player that held the decoder of an earlier
\* successful OpenFile.
C18_Witness ==
    /\ main.call = "OpenFile"
    /\ main.err = "OpenFailed"
    /\ main.phase = "Idle"
    /\ fp.decoder = "nil"
    /\ fp.bitsPerSample > 0
    /\ hist.plays = 0

\* ======================================================= byte ring claims
\* Free space of the ring as it is now.
RingFree == ring.size - (ring.writePos - ring.readPos)

\* The bytes a reader may read now, oldest first.
RingReadable ==
    [j \in 1 .. ring.writePos - ring.readPos |->
        ring.buffer[BitAnd(ring.readPos + j - 1, ring.mask)]]

\* C19: byte-ring Write(data) is all or nothing.  With free space >=
\* len(data) it goes on to store, and its Store advances write_pos by
\* exactly len(data) with all of data in the ring; with less free space it
\* returns (0, ErrInsufficientSpace) and write_pos, read_pos and the storage
\* are as before; no step stores a proper prefix or touches a readable byte.
C19_WriteAllOrNothing ==
    [][ring.kind = "byte" =>
        /\ (ring.p.pc = "availLoadR" /\ ring'.p # ring.p)
             => IF RingFree >= Len(ring.p.data)
                THEN ring'.p.pc = "loadW" /\ ring'.p.toWrite = Len(ring.p.data)
                ELSE /\ ring'.p.pc = "idle"
                     /\ ring'.p.n = 0
                     /\ ring'.p.err = "ErrInsufficientSpace"
                     /\ ring'.writePos = ring.writePos
                     /\ ring'.readPos = ring.readPos
                     /\ ring'.buffer = ring.buffer
        /\ (ring.p.pc = "store" /\ ring'.p # ring.p)
             => /\ ring'.writePos = ring.writePos + Len(ring.p.data)
                /\ ring'.p.n = Len(ring.p.data)
                /\ ring'.p.err = "nil"
                /\ \A j \in 1 .. Len(ring.p.data) :
                     ring'.buffer[BitAnd(ring.writePos + j - 1, ring.mask)]
                        = ring.p.data[j]
        /\ ring'.writePos # ring.writePos
             => ring.p.pc = "store"
        /\ \A k \in ring.readPos .. ring.writePos - 1 :
             ring'.buffer[BitAnd(k, ring.mask)] = ring.buffer[BitAnd(k, ring.mask)]]_vars

\* A Write has been refused although a part of its data would have fitted
\* (the consumer has not read anything yet), and nothing of it was stored.
C19_Witness ==
    /\ ring.kind = "byte"
    /\ ring.p.pc = "idle"
    /\ ring.p.err = "ErrInsufficientSpace"
    /\ ring.c.pc = "idle"
    /\ ring.readPos = 0
    /\ ring.got = << >>
    /\ RingFree > 0
    /\ ring.next = ring.writePos
    /\ RingReadable = RingSent("byte", ring.writePos)

\* The ring of a quiescent SpecRings state, as the call operators take it.
RingAsCalled ==
    [buffer |-> ring.buffer, size |-> ring.size, mask |-> ring.mask,
     writePos |-> ring.writePos, readPos |-> ring.readPos]

\* C20: the bytes the byte ring's Reads (and ReadSlices) return are the
\* bytes written, in write order, wherever in the storage they lie; and at
\* every offset the ring reaches, a Write(data) into the empty ring followed
\* by a Read of len(data) bytes returns exactly data, for every length up
\* to the capacity (data that wraps, and data that ends at the boundary).
C20_ByteRingRoundTrip ==
    ring.kind = "byte" =>
        /\ ring.got = RingSent("byte", Len(ring.got))
        /\ Len(ring.got) = ring.readPos
        /\ (ring.p.pc = "idle" /\ ring.c.pc = "idle")
             => RingReadable = [j \in 1 .. ring.writePos - ring.readPos |->
                                   RingItem("byte", ring.readPos + j)]
        /\ (ring.p.pc = "idle" /\ ring.c.pc = "idle" /\ ring.writePos = ring.readPos)
             => \A len \in 1 .. ring.size :
                  LET data == [j \in 1 .. len |-> 100 + j]
                      w == ByteRingWrite(RingAsCalled, data)
                      r == ByteRingRead(w.rb, len)
                  IN  /\ w.err = "nil" /\ w.n = len
                      /\ r.err = "nil" /\ r.n = len
                      /\ r.data = data
                      /\ r.rb.readPos = r.rb.writePos

\* All bytes have arrived, the last call returning bytes from both sides of
\* the end of the storage, and the emptied ring stands at an odd offset.
C20_Witness ==
    /\ ring.kind = "byte"
    /\ ring.got = RingSent("byte", RingItems)
    /\ ring.p.pc = "idle" /\ ring.c.pc = "idle"
    /\ ring.c.n >= 2
    /\ ring.readPos - ring.c.n < ring.size
    /\ ring.readPos > ring.size
    /\ ring.writePos = ring.readPos

\* ================================================== single-threaded calls
\* SpecCalls: one thread calls New, the frame ring's Write and Read, and the
\* frame codec's Marshal and Unmarshal, on inputs drawn from bounded sets.
\* Payload slices are addresses into a heap of backing arrays, so that two
\* frames can share a payload: address 0 is the nil slice, address a > 0 is
\* heap[a].
\*
\* Requested capacity of the ring the calls are made on.
CallCapacity == 4
\* Frames the caller writes in all.
CallFrames == 6
\* Most frames one Write is given, and most one Read asks for.
CallBatch == 5
\* Payload buffers the caller owns and uses again for later frames.
CallBuffers == 2
\* The caller's payload bytes are 1 .. CallBytes.
CallBytes == 2

\* The bytes a payload slice refers to.
Deref(heap, a) == IF a = 0 THEN << >> ELSE heap[a]

\* A frame with its payload bytes in place of the slice.
FrameValue(heap, f) == [f EXCEPT !.Audio = Deref(heap, f.Audio)]

\* New(capacity): every slot is the zero frame, whose Audio is the nil slice.
CallRingNew(capacity) ==
    LET rb == FrameRingNew(capacity)
    IN  [rb EXCEPT !.buffer = [i \in DOMAIN rb.buffer |->
                                  [rb.buffer[i] EXCEPT !.Audio = 0]]]

\* The buffer the caller uses for the payload of its k-th frame.
CallerBuffer(k) == ((k - 1) % CallBuffers) + 1

\* The k-th frame the caller writes (k = 1, 2, ...).
CallerFrame(k) ==
    [Format |-> [SampleRate |-> 44100, Channels |-> 2, BitsPerSample |-> 16],
     SamplesCount |-> Uint16(k),
     Audio |-> CallerBuffer(k)]

\* Slots that keep the payload slices of the caller's frames.
ShallowSlots(heap, buffer, mask, writePos, toWrite, i) ==
    [heap |-> heap, buffer |-> buffer]

RECURSIVE SlotOwnedCopySlots(_, _, _, _, _, _)
\* A copy into one payload array per slot, made once and used again each time
\* the slot is written.
SlotOwnedCopySlots(heap, buffer, mask, writePos, toWrite, i) ==
    IF i >= toWrite THEN [heap |-> heap, buffer |-> buffer]
    ELSE LET pos == BitAnd(writePos + i, mask)
             own == CallBuffers + pos + 1
             bytes == Deref(heap, buffer[pos].Audio)
             stored == [j \in 1 .. (IF own > Len(heap) THEN own ELSE Len(heap)) |->
                           IF j = own THEN bytes
                           ELSE IF j <= Len(heap) THEN heap[j] ELSE << >>]
         IN  SlotOwnedCopySlots(stored,
                                [buffer EXCEPT ![pos].Audio = own],
                                mask, writePos, toWrite, i + 1)

RECURSIVE DeepCopySlots(_, _, _, _, _, _)
\* The deep copy in Write's loop: the slot of frame i gets a payload array of
\* its own (make) holding the bytes of the frame's payload (copy).
DeepCopySlots(heap, buffer, mask, writePos, toWrite, i) ==
    IF i >= toWrite THEN [heap |-> heap, buffer |-> buffer]
    ELSE LET pos == BitAnd(writePos + i, mask)
             fresh == Append(heap, Deref(heap, buffer[pos].Audio))
         IN  DeepCopySlots(fresh,
                           [buffer EXCEPT ![pos].Audio = Len(fresh)],
                           mask, writePos, toWrite, i + 1)

\* What the caller remembers of its latest call.
CallLast(op, arg, rb, n, err) ==
    [op |-> op, arg |-> arg, free |-> AvailableWrite(rb), avail |-> AvailableRead(rb),
     wBefore |-> rb.writePos, rBefore |-> rb.readPos, n |-> n, err |-> err]

\* The caller after New(CallCapacity), its payload buffers filled.
CallFramesInit ==
    [kind |-> "frames",
     rb |-> CallRingNew(CallCapacity),
     heap |-> [b \in 1 .. CallBuffers |-> <<1>>],
     written |-> << >>,   \* the frames stored so far, as they were when written
     got |-> << >>,       \* the frames the latest Read returned
     gotFrom |-> 0,       \* how many frames had been read before them
     last |-> CallLast("New", CallCapacity, CallRingNew(CallCapacity), 0, "nil")]

\* rb.Write(frames) with the caller's next len frames.
CallWrite ==
    /\ call.kind = "frames"
    /\ \E len \in 0 .. Min(CallBatch, CallFrames - Len(call.written)) :
         LET first == Len(call.written)
             frames == [i \in 1 .. len |-> CallerFrame(first + i)]
             w == FrameRingWrite(call.rb, frames)
             d == DeepCopySlots(call.heap, w.rb.buffer, call.rb.mask,
                                call.rb.writePos, w.n, 0)
         IN  call' = [call EXCEPT
                        !.rb = [w.rb EXCEPT !.buffer = d.buffer],
                        !.heap = d.heap,
                        !.written = @ \o [i \in 1 .. w.n |->
                                             FrameValue(call.heap, frames[i])],
                        !.last = CallLast("Write", len, call.rb, w.n, w.err)]
    /\ UNCHANGED <<fp, dec, prod, cb, stopper, waiter, main, hist, crashed, ring, ap, mon>>

\* rb.Read(numFrames)
CallRead ==
    /\ call.kind = "frames"
    /\ \E numFrames \in -1 .. CallBatch :
         LET r == FrameRingRead(call.rb, numFrames)
         IN  call' = [call EXCEPT
                        !.rb = r.rb,
                        !.got = r.frames,
                        !.gotFrom = call.rb.readPos,
                        !.last = CallLast("Read", numFrames, call.rb,
                                          Len(r.frames), r.err)]
    /\ UNCHANGED <<fp, dec, prod, cb, stopper, waiter, main, hist, crashed, ring, ap, mon>>

\* The caller overwrites one of its payload buffers (audioBuffer[0] = 0xFF).
CallMutate ==
    /\ call.kind = "frames"
    /\ \E b \in 1 .. CallBuffers, v \in 1 .. CallBytes :
         /\ call.heap[b] # <<v>>
         /\ call' = [call EXCEPT !.heap[b] = <<v>>, !.last.op = "Mutate"]
    /\ UNCHANGED <<fp, dec, prod, cb, stopper, waiter, main, hist, crashed, ring, ap, mon>>

\* ----------------------------------------------------------------- New(c)
\* New of both rings for a requested capacity; Size() is what it stored.
CallNewInit(c) ==
    [kind |-> "new", capacity |-> c, made |-> FALSE, frameSize |-> 0, byteSize |-> 0]

CallNew ==
    /\ call.kind = "new"
    /\ ~call.made
    /\ call' = [call EXCEPT !.made = TRUE,
                            !.frameSize = FrameRingNew(call.capacity).size,
                            !.byteSize = ByteRingNew(call.capacity).size]
    /\ UNCHANGED <<fp, dec, prod, cb, stopper, waiter, main, hist, crashed, ring, ap, mon>>

\* ------------------------------------------------------------ frame codec
\* Longest payload of the frames that are marshalled.
CodecMaxLen == 2
\* Longest payload that follows a header in the inputs of Unmarshal.
CodecMaxInput == 3

\* binary.LittleEndian.PutUint16 / PutUint32 of a value converted to the
\* n-byte type: the low n bytes of v, lowest first.
PutLittleEndian(v, n) == [j \in 1 .. n |-> (v \div Pow2(8 * (j - 1))) % 256]

RECURSIVE LittleEndian(_)
\* binary.LittleEndian.Uint16 / Uint32 of a byte slice.
LittleEndian(bytes) ==
    IF Len(bytes) = 0 THEN 0
    ELSE bytes[1] + 256 * LittleEndian(SubSeq(bytes, 2, Len(bytes)))

\* The largest number the model checker computes with.
MaxInt == 2147483647

\* int(binary.LittleEndian.Uint32(bytes)) as far as a slice length can be
\* compared with it: a value of 2^31 or more is larger than the length of
\* every slice here, and so is MaxInt.
AudioLen(bytes) == IF bytes[4] >= 128 THEN MaxInt ELSE LittleEndian(bytes)

\* The 12 header bytes with a given audio length field.
CodecHeader(af, audioLen) ==
    PutLittleEndian(af.Format.SampleRate, 4)
        \o <<af.Format.Channels>>
        \o <<af.Format.BitsPerSample>>
        \o PutLittleEndian(af.SamplesCount, 2)
        \o PutLittleEndian(audioLen, 4)

\* A Marshal that writes 0 into the audio length field.
MarshalNoLength(af) == CodecHeader(af, 0) \o af.Audio

\* af.Marshal()
Marshal(af) == CodecHeader(af, Len(af.Audio)) \o af.Audio

\* An Unmarshal that takes whatever follows the header as the payload.
UnmarshalNoLengthCheck(af, data) ==
    IF Len(data) < 12
    THEN [af |-> af, err |-> "buffer too small"]
    ELSE [af |-> [Format |-> [SampleRate |-> LittleEndian(SubSeq(data, 1, 4)),
                              Channels |-> data[5],
                              BitsPerSample |-> data[6]],
                  SamplesCount |-> LittleEndian(SubSeq(data, 7, 8)),
                  Audio |-> SubSeq(data, 13, Len(data))],
          err |-> "nil"]

\* af.Unmarshal(data): the frame afterwards and the error.  The header fields
\* are stored before the audio length is validated.
Unmarshal(af, data) ==
    IF Len(data) < 12
    THEN [af |-> af, err |-> "buffer too small"]
    ELSE LET header == [af EXCEPT
                          !.Format.SampleRate = LittleEndian(SubSeq(data, 1, 4)),
                          !.Format.Channels = data[5],
                          !.Format.BitsPerSample = data[6],
                          !.SamplesCount = LittleEndian(SubSeq(data, 7, 8))]
             audioLen == AudioLen(SubSeq(data, 9, 12))
         IN  IF Len(data) - 12 < audioLen
             THEN [af |-> header, err |-> "buffer too small for audio data"]
             ELSE [af |-> [header EXCEPT !.Audio = SubSeq(data, 13, 12 + audioLen)],
                   err |-> "nil"]

RECURSIVE SeqsUpTo(_, _)
\* All sequences over S of length at most n.
SeqsUpTo(S, n) ==
    IF n = 0 THEN {<< >>}
    ELSE LET shorter == SeqsUpTo(S, n - 1)
         IN  shorter \cup {Append(q, x) : q \in {t \in shorter : Len(t) = n - 1}, x \in S}

\* Well-formed frames: every field within its type, up to the largest values
\* the checker computes with.
CodecFrames ==
    [Format : [SampleRate : {0, 44100, MaxInt},
               Channels : {0, 2, 255},
               BitsPerSample : {16, 255}],
     SamplesCount : {4, 65535},
     Audio : SeqsUpTo({0, 1, 255}, CodecMaxLen)]

\* Inputs of Unmarshal: a header that announces some audio length, followed by
\* some payload bytes, cut off anywhere.
CodecInputs ==
    {LET whole == SubSeq(CodecHeader(ZeroFrame, 0), 1, 8)
                      \o L \o [j \in 1 .. m |-> 170]
     IN  SubSeq(whole, 1, Min(k, Len(whole))) :
        L \in {<<0, 0, 0, 0>>, <<1, 0, 0, 0>>, <<2, 0, 0, 0>>, <<3, 0, 0, 0>>,
               <<4, 0, 0, 0>>, <<0, 1, 0, 0>>, <<232, 3, 0, 0>>, <<0, 0, 0, 128>>,
               <<255, 255, 255, 255>>},
        m \in 0 .. CodecMaxInput,
        k \in 0 .. 12 + CodecMaxInput}

\* The frames Unmarshal is called on: a new one, and one that holds a frame
\* decoded earlier.
CodecReceivers ==
    {ZeroFrame,
     [Format |-> [SampleRate |-> 44100, Channels |-> 2, BitsPerSample |-> 16],
      SamplesCount |-> 4, Audio |-> <<1, 2>>]}

\* A caller about to marshal frame af and unmarshal the result, or about to
\* unmarshal data it got from elsewhere into frame af.
CallCodecInit(pc, af, data) ==
    [kind |-> "codec", pc |-> pc, af |-> af, data |-> data,
     out |-> [af |-> ZeroFrame, err |-> "nil"]]

\* data := af.Marshal()
CallMarshal ==
    /\ call.kind = "codec"
    /\ call.pc = "frame"
    /\ call' = [call EXCEPT !.pc = "marshalled", !.data = Marshal(call.af)]
    /\ UNCHANGED <<fp, dec, prod, cb, stopper, waiter, main, hist, crashed, ring, ap, mon>>

\* var decoded AudioFrame; err := decoded.Unmarshal(data), or the same on a
\* frame af the caller has used before.
CallUnmarshal ==
    /\ call.kind = "codec"
    /\ call.pc \in {"marshalled", "bytes"}
    /\ call' = [call EXCEPT
                  !.pc = IF call.pc = "marshalled" THEN "roundTrip" ELSE "parsed",
                  !.out = Unmarshal(IF call.pc = "marshalled" THEN ZeroFrame ELSE call.af,
                                    call.data)]
    /\ UNCHANGED <<fp, dec, prod, cb, stopper, waiter, main, hist, crashed, ring, ap, mon>>

\* ------------------------------------------------- the producer's frame
\* Counts of samples one DecodeSamples call returns: samplesPerFrame is an
\* int the caller chooses freely, 4096 by default.
ProduceSamples == {1, 4096, 65535, 65536, 65537}

\* A producer of a player opened on a file of the given format, about to
\* build the frame for samplesRead decoded samples.
CallProduceInit(samplesRead, channels, bitsPerSample) ==
    [kind |-> "produce", samplesRead |-> samplesRead,
     channels |-> channels, bitsPerSample |-> bitsPerSample,
     made |-> FALSE, samplesCount |-> 0, audioLen |-> 0]

\* The producer builds the frame; its SamplesCount and len(Audio) are kept.
CallProduce ==
    /\ call.kind = "produce"
    /\ ~call.made
    /\ LET f == [NewFilePlayer EXCEPT !.sampleRate = FileSampleRate,
                                       !.channels = call.channels,
                                       !.bitsPerSample = call.bitsPerSample,
                                       !.bytesPerSample = call.bitsPerSample \div 8,
                                       !.samplesPerFrame = call.samplesRead]
           frame == ProducerFrame(f, 0, call.samplesRead)
       IN  call' = [call EXCEPT !.made = TRUE,
                                !.samplesCount = frame.SamplesCount,
                                !.audioLen = Len(frame.Audio)]
    /\ UNCHANGED <<fp, dec, prod, cb, stopper, waiter, main, hist, crashed, ring, ap, mon>>

\* ---------------------------------------------------------------- SpecCalls
InitCalls ==
    /\ fp = NewFilePlayer
    /\ dec = [open |-> FALSE, pos |-> 0, mode |-> "clean"]
    /\ prod = [pc |-> "none", samplesRead |-> 0, toWrite |-> << >>]
    /\ cb = [pc |-> "idle", bytesNeeded |-> 0, bytesWritten |-> 0,
             output |-> << >>, result |-> "none"]
    /\ stopper = [s \in Stoppers |-> "idle"]
    /\ waiter = "idle"
    /\ main = [phase |-> "Idle", call |-> "none", err |-> "nil"]
    /\ hist = HistInit
    /\ crashed = FALSE
    /\ ring = RingIdle
    /\ ap = ApIdle
    /\ mon = MonIdle
    /\ \/ call = CallFramesInit
       \/ \E c \in 0 .. WordMod - 1 : call = CallNewInit(c)
       \/ \E af \in CodecFrames : call = CallCodecInit("frame", af, << >>)
       \/ \E data \in CodecInputs, af \in CodecReceivers :
             call = CallCodecInit("bytes", af, data)
       \/ \E n \in ProduceSamples, ch \in {1, 2}, bits \in {16, 24} :
             call = CallProduceInit(n, ch, bits)

NextCalls ==
    \/ CallWrite
    \/ CallRead
    \/ CallMutate
    \/ CallNew
    \/ CallMarshal
    \/ CallUnmarshal
    \/ CallProduce

SpecCalls == InitCalls /\ [][NextCalls]_vars

\* ============================================== claims on calls and codec
\* Slot k of the ring the calls are made on (k counts frames from the start).
CallSlot(k) == call.rb.buffer[BitAnd(k, call.rb.mask)]

\* C21: frame-ring Write(frames) stores exactly the first
\* min(len(frames), free slots) frames, in order, behind the unread ones, and
\* returns that count; it returns ErrInsufficientSpace exactly when frames is
\* non-empty and no slot is free, and then nothing is stored.
C21_FrameWritePartial ==
    (call.kind = "frames" /\ call.last.op = "Write") =>
        LET l == call.last
            n == Min(l.arg, l.free)
        IN  /\ l.n = n
            /\ call.rb.writePos = l.wBefore + n
            /\ call.rb.readPos = l.rBefore
            /\ Len(call.written) = l.wBefore + n
            /\ \A i \in 1 .. n :
                 FrameValue(call.heap, CallSlot(l.wBefore + i - 1))
                    = FrameValue(call.heap, CallerFrame(l.wBefore + i))
            /\ \A k \in l.rBefore .. l.wBefore - 1 :
                 FrameValue(call.heap, CallSlot(k)) = call.written[k + 1]
            /\ l.err = IF l.arg > 0 /\ l.free = 0 THEN "ErrInsufficientSpace" ELSE "nil"
            /\ l.err = "ErrInsufficientSpace" => n = 0

\* Five frames were written into the empty ring of capacity 4: four stored,
\* no error.
C21_Witness ==
    /\ call.kind = "frames"
    /\ call.last.op = "Write"
    /\ call.rb.size = 4
    /\ call.last.arg = 5
    /\ call.last.free = 4
    /\ call.last.n = 4
    /\ call.last.err = "nil"
    /\ call.last.wBefore > 0

\* C22: frame-ring Read(n) returns the oldest min(n, available) frames in
\* the order they were written and advances read_pos by that count; with
\* n <= 0 it returns nothing, no error, and changes nothing; with n > 0 on an
\* empty ring it returns ErrInsufficientData, no frames, and changes nothing.
C22_FrameReadOldest ==
    (call.kind = "frames" /\ call.last.op = "Read") =>
        LET l == call.last
            n == Min(l.arg, l.avail)
        IN  /\ call.rb.writePos = l.wBefore
            /\ IF l.arg <= 0
               THEN /\ call.got = << >>
                    /\ l.err = "nil"
                    /\ call.rb.readPos = l.rBefore
               ELSE IF l.avail = 0
               THEN /\ call.got = << >>
                    /\ l.err = "ErrInsufficientData"
                    /\ call.rb.readPos = l.rBefore
               ELSE /\ Len(call.got) = n
                    /\ \A i \in 1 .. n :
                         FrameValue(call.heap, call.got[i]) = call.written[l.rBefore + i]
                    /\ l.err = "nil"
                    /\ call.rb.readPos = l.rBefore + n

\* A Read asked for more than there was and got the frames that lie on both
\* sides of the end of the storage.
C22_Witness ==
    /\ call.kind = "frames"
    /\ call.last.op = "Read"
    /\ call.last.arg > call.last.avail
    /\ Len(call.got) >= 2
    /\ call.last.rBefore < call.rb.size
    /\ call.rb.readPos > call.rb.size

\* C23: whatever the caller does to its payload buffers after Write
\* returned, every frame in the ring and every frame a later Read returned
\* has the payload bytes it had when it was written.
C23_PayloadDeepCopied ==
    call.kind = "frames" =>
        /\ \A k \in call.rb.readPos .. call.rb.writePos - 1 :
             Deref(call.heap, CallSlot(k).Audio) = call.written[k + 1].Audio
        /\ \A i \in 1 .. Len(call.got) :
             Deref(call.heap, call.got[i].Audio) = call.written[call.gotFrom + i].Audio

\* A Read has returned a frame whose payload buffer the caller had
\* overwritten between the Write and the Read.
C23_Witness ==
    /\ call.kind = "frames"
    /\ call.last.op = "Read"
    /\ \E i \in 1 .. Len(call.got) :
         call.heap[CallerBuffer(call.gotFrom + i)] # call.written[call.gotFrom + i].Audio

\* The smallest power of two that is >= c.
SmallestPowerOf2(c) ==
    LET k == CHOOSE j \in 0 .. WordBits : Pow2(j) >= c /\ \A i \in 0 .. j - 1 : Pow2(i) < c
    IN  Pow2(k)

\* C24: for every requested capacity c of the word size, New(c) creates a
\* ring whose Size() is the smallest power of two >= max(c, 1).
C24_NewRoundsToPowerOf2 ==
    (call.kind = "new" /\ call.made) =>
        LET want == SmallestPowerOf2(IF call.capacity = 0 THEN 1 ELSE call.capacity)
        IN  /\ call.frameSize = want
            /\ call.byteSize = want

\* C27: for every well-formed frame f, also one with an empty payload,
\* Unmarshal(Marshal(f)) succeeds and yields a frame equal to f in sample
\* rate, channels, bits per sample, samples count and every payload byte.
C27_CodecRoundTrip ==
    (call.kind = "codec" /\ call.pc = "roundTrip") =>
        /\ call.out.err = "nil"
        /\ call.out.af.Format.SampleRate = call.af.Format.SampleRate
        /\ call.out.af.Format.Channels = call.af.Format.Channels
        /\ call.out.af.Format.BitsPerSample = call.af.Format.BitsPerSample
        /\ call.out.af.SamplesCount = call.af.SamplesCount
        /\ call.out.af.Audio = call.af.Audio
        /\ Len(call.data) = 12 + Len(call.af.Audio)

\* A frame with the extreme header values and a payload came back.
C27_Witness ==
    /\ call.kind = "codec"
    /\ call.pc = "roundTrip"
    /\ call.af.Format.SampleRate = MaxInt
    /\ call.af.Format.Channels = 255
    /\ call.af.SamplesCount = 65535
    /\ call.af.Audio = <<255, 0>>
    /\ call.out.af = call.af

\* The audio length a 12-byte header announces is more than `rest` bytes.
AnnouncesMoreThan(data, rest) ==
    \/ data[12] >= 128
    \/ data[9] + 256 * data[10] + 65536 * data[11] + 16777216 * data[12] > rest

C25_PositionsMonotonic ==
    [][ring.kind \in {"frame", "byte"} =>
        /\ ring'.writePos >= ring.writePos
        /\ ring'.readPos >= ring.readPos
        /\ ring'.writePos # ring.writePos => ring.p.pc = "store"
        /\ ring'.readPos # ring.readPos => ring.c.pc = "store"]_vars

\* Both positions have advanced, a Write is about to store a position past
\* the end of the storage and a Consume one at its end.
C25_Witness ==
    /\ ring.kind = "byte"
    /\ ring.p.pc = "store"
    /\ ring.c.pc = "store"
    /\ ring.c.op = "Consume"
    /\ ring.readPos > 0
    /\ ring.writePos >= ring.size
    /\ ring.c.readPos + ring.c.toRead >= ring.size

\* C26: within a session, from the counter reset of a PlayFile to the next
\* PlayFile, no step decreases produced_samples or played_samples.
C26_CountersMonotonic ==
    [][hist'.plays = hist.plays =>
        /\ fp'.producedSamples >= fp.producedSamples
        /\ fp'.playedSamples >= fp.playedSamples]_vars

\* In a second session both counters have been reset and have grown again,
\* in more than one step.
C26_Witness ==
    /\ hist.plays = 2
    /\ InSession
    /\ fp.producedSamples = TotalSamples
    /\ fp.playedSamples = TotalSamples
    /\ fp.ringbuf.writePos >= 2

\* ============================= the termination test, one load at a time
\* SpecDrain: the FilePlayer with the condition at the top of audioCallback
\* taken apart: producerDone.Load() is one step, and the rest of the
\* condition (AvailableRead, which loads the producer's write position, and
\* the callback's own current frame) another, so that the producer may run
\* between them.
\*
\* A look at the ring that finds it drained without looking.
RingDrainedNoLook(f) == TRUE

\* fp.ringbuf.AvailableRead() == 0 && fp.currentFrame.Load() == nil
RingDrained(f) == AvailableRead(f.ringbuf) = 0 /\ f.currentFrame = NilFrame

\* The callback as it enters the fill loop.
CallbackFilling ==
    [pc |-> "fill",
     bytesNeeded |-> fp.framesPerBuffer * fp.channels * fp.bytesPerSample,
     bytesWritten |-> 0,
     output |-> [i \in 1 .. fp.framesPerBuffer * fp.channels * fp.bytesPerSample |->
                    Garbage],
     result |-> "none"]

\* The host invokes audioCallback; fp.producerDone.Load().  When it is false
\* the && is decided and the fill loop is next.
CallbackLoadProducerDone ==
    /\ ~crashed
    /\ fp.stream \in {"active", "finished"}
    /\ cb.pc = "idle"
    /\ cb' = IF fp.producerDone THEN [cb EXCEPT !.pc = "decide", !.result = "none"]
             ELSE CallbackFilling
    /\ hist' = [hist EXCEPT !.cbAllocs = 0]
    /\ UNCHANGED <<fp, dec, prod, stopper, waiter, main, crashed, ring, ap, mon, call>>

\* The rest of the condition, and the completion branch when it holds.
CallbackDecide ==
    /\ ~crashed
    /\ cb.pc = "decide"
    /\ IF RingDrained(fp)
       THEN /\ fp' = [fp EXCEPT !.playbackComplete = TRUE,
                                !.playbackCompleteChan = "closed",
                                !.stream = "finished"]
            /\ hist' = [hist EXCEPT
                          !.completeFires =
                              IF fp.playbackCompleteChan = "closed" THEN @ ELSE @ + 1]
            /\ cb' = [cb EXCEPT !.pc = "idle", !.result = "Complete"]
       ELSE /\ cb' = CallbackFilling
            /\ UNCHANGED <<fp, hist>>
    /\ UNCHANGED <<dec, prod, stopper, waiter, main, crashed, ring, ap, mon, call>>

NextDrain ==
    \/ OpenFile
    \/ PlayFile
    \/ Producer
    \/ CallbackLoadProducerDone
    \/ CallbackDecide
    \/ CallbackFill
    \/ CallbackFinish
    \/ Wait
    \/ Stop(1)

SpecDrain == Init /\ [][NextDrain]_vars

\* C29: under every interleaving with the producer, at the step in which
\* the callback decides Complete there is no unread frame in the ring, no
\* partially consumed current frame, the producer is past its last Write of
\* the session, and every sample it wrote has been copied to the output.
C29_CompleteOnlyWhenDrained ==
    [][(cb.pc = "decide" /\ cb'.pc = "idle" /\ cb'.result = "Complete")
        => /\ fp.ringbuf.readPos = fp.ringbuf.writePos
           /\ fp.currentFrame = NilFrame
           /\ fp.frameOffset = 0
           /\ prod.pc \in {"deferWg", "exited"}
           /\ prod' = prod \/ prod'.pc = "exited"
           /\ fp.playedSamples = fp.producedSamples]_vars

\* Complete was decided in a session nobody stopped, after more than one
\* frame, while the producer was still in its deferred calls.
C29_Witness ==
    /\ InSession
    /\ cb.pc = "idle"
    /\ cb.result = "Complete"
    /\ ~fp.stopped
    /\ fp.ringbuf.readPos >= 2
    /\ fp.playedSamples = TotalSamples
    /\ prod.pc = "deferWg"

\* C30: in a session that ends by draining (no Stop), every sample a
\* DecodeSamples call reported as decoded has been written to the ring and
\* played when the callback returns Complete, also the samples of a last
\* call that reports a positive count together with the end-of-file error.
C30_DecodedSamplesPlayed ==
    (InSession /\ cb.result = "Complete" /\ ~fp.stopped /\ fp.stopChan = "open")
    => /\ fp.producedSamples = hist.decoded
       /\ fp.playedSamples = hist.decoded

\* ============================================== the ring's fill level, asked
\* A monitoring thread (GetBufferStatus of the players, called from the
\* status loop of main) calls AvailableRead or AvailableWrite while the
\* producer writes and the consumer reads.  Its two Loads are two steps.
RingMonitorCall ==
    /\ ring.kind # "none"
    /\ mon.pc \in {"idle", "returned"}
    /\ \E op \in {"AvailableRead", "AvailableWrite"} :
         mon' = [pc |-> "loadW", op |-> op, w |-> 0, result |-> 0]
    /\ UNCHANGED <<fp, dec, prod, cb, stopper, waiter, main, hist, crashed, ring, ap, call>>

\* writePos := rb.writePos.Load()
RingMonitorLoadW ==
    /\ mon.pc = "loadW"
    /\ mon' = [mon EXCEPT !.pc = "loadR", !.w = ring.writePos]
    /\ UNCHANGED <<fp, dec, prod, cb, stopper, waiter, main, hist, crashed, ring, ap, call>>

\* readPos := rb.readPos.Load(); the count is computed and returned.
RingMonitorLoadR ==
    /\ mon.pc = "loadR"
    /\ LET rb == [size |-> ring.size, writePos |-> mon.w, readPos |-> ring.readPos]
       IN  mon' = [mon EXCEPT
                     !.pc = "returned",
                     !.result = IF mon.op = "AvailableRead"
                                THEN AvailableRead(rb) ELSE AvailableWrite(rb)]
    /\ UNCHANGED <<fp, dec, prod, cb, stopper, waiter, main, hist, crashed, ring, ap, call>>

RingMonitor == RingMonitorCall \/ RingMonitorLoadW \/ RingMonitorLoadR

NextRingsMonitor == RingProducer \/ RingConsumer \/ RingMonitor

SpecRingsMonitor == InitRings /\ [][NextRingsMonitor]_vars

\* C31: AvailableRead() and AvailableWrite() of either ring, called from a
\* monitoring thread that is neither the producer nor the consumer while
\* both run, return a value between 0 and Size() inclusive.
C31_AvailableWithinSize ==
    mon.pc = "returned" => mon.result \in 0 .. ring.size

\* ======================================================= FilePlayer, part 3
\* C32: at every instant of a FilePlayer session the stored value of
\* playedSamples is at most the stored value of producedSamples: no sample is
\* counted as played before it has been counted as produced.
C32_PlayedAtMostProduced ==
    InSession => fp.playedSamples <= fp.producedSamples

\* Bytes of one sample frame of the file being played.
BytesPerFrame == fp.channels * fp.bytesPerSample

\* The byte at place i (1, 2, ...) of the concatenated payloads of the frames
\* the producer writes in one session: the frames hold the samples of the
\* file in order, so it is byte i of the file's PCM data.
StreamByte(i) == PcmBytes(0, (i + BytesPerFrame - 1) \div BytesPerFrame, BytesPerFrame)[i]

SessionClean ==
    /\ AvailableRead(fp.ringbuf) = 0
    /\ fp.ringbuf.writePos = 0 /\ fp.ringbuf.readPos = 0
    /\ fp.currentFrame = NilFrame
    /\ fp.frameOffset = 0
    /\ ~fp.producerDone
    /\ ~fp.playbackComplete
    /\ fp.producedSamples = 0
    /\ fp.playedSamples = 0

\* C34: after a session ended by Stop() while frames were queued in the ring
\* or a frame was partly consumed, a following OpenFile + PlayFile starts
\* clean: at the return of PlayFile the ring is empty, no current frame or
\* offset is kept, both latches are clear and both counters are 0; and in the
\* new session no sample count or audio byte of the session before appears:
\* the counters never exceed what the new session decoded and the bytes put
\* out are the new file's, from its start.
C34_RestartIsClean ==
    /\ [][ /\ main'.call = "PlayFile" /\ main'.err = "nil"
           /\ hist'.plays = hist.plays + 1
           => SessionClean' ]_vars
    /\ [](InSession /\ ~crashed =>
            /\ fp.producedSamples <= hist.decoded
            /\ fp.playedSamples <= hist.decoded
            /\ cb.pc \in {"fill", "finish"} =>
                  \A i \in 1 .. cb.bytesWritten :
                      cb.output[i] = fp.playedSamples * BytesPerFrame + i)

\* The second session has just been started, nothing decoded yet, and the
\* first was stopped with a frame queued that no callback ever fetched (it is
\* still in its slot).
C34_Witness ==
    /\ hist.plays = 2
    /\ InSession /\ ~crashed
    /\ SessionClean
    /\ hist.decoded = 0
    /\ fp.ringbuf.buffer[0] # ZeroFrame
    /\ cb.output = << >>

\* ===================================================== byte-ring pipelines
\* The PCM pipeline of the byte-ring players (Player of audioplayer, the
\* CallbackPlayer example): the producer decodes a chunk and writes it to the
\* byte ring, retrying the same chunk while the ring is full; the consumer
\* reads into a buffer of framesPerBuffer sample frames and passes on the
\* whole sample frames it got.  The ring calls are those of SpecRings, one
\* Load, copy or Store a step.
\*
\* Config.BufferSize: size of the ring, not a multiple of a sample frame.
PipeBufferSize == 8
\* Sample frames in the file.
PipeSamples == 4
\* Most sample frames one DecodeSamples call returns (audioSamples).
PipeAudioSamples == 2
\* Sample frames the consumer asks for in one Read.
PipeFramesPerBuffer == 1
\* The fixed format: one channel of 24-bit samples.
PipeChannels == 1
PipeBytesPerSample == 3

PipeBytesPerFrame == PipeChannels * PipeBytesPerSample

InitPipe ==
    /\ fp = NewFilePlayer
    /\ dec = [open |-> FALSE, pos |-> 0, mode |-> "clean"]
    /\ prod = [pc |-> "none", samplesRead |-> 0, toWrite |-> << >>]
    /\ cb = [pc |-> "idle", bytesNeeded |-> 0, bytesWritten |-> 0,
             output |-> << >>, result |-> "none"]
    /\ stopper = [s \in Stoppers |-> "idle"]
    /\ waiter = "idle"
    /\ main = [phase |-> "Idle", call |-> "none", err |-> "nil"]
    /\ hist = HistInit
    /\ crashed = FALSE
    /\ ap = ApIdle
    /\ mon = MonIdle
    /\ ring = RingNew("byte", PipeBufferSize)
    /\ call = [kind |-> "pipe",
               chunkEnd |-> 0,     \* bytes decoded so far
               taken |-> 0,        \* bytes of ring.got the consumer has looked at
               played |-> << >>]   \* bytes handed to the stream, in order

\* samplesRead, err := DecodeSamples(audioSamples, buffer), once the chunk
\* before it is in the ring.
PipeDecode ==
    /\ call.kind = "pipe"
    /\ ring.p.pc = "idle"
    /\ ring.next = call.chunkEnd
    /\ \E samplesRead \in 1 .. PipeAudioSamples :
         /\ call.chunkEnd + samplesRead * PipeBytesPerFrame
                <= PipeSamples * PipeBytesPerFrame
         /\ call' = [call EXCEPT !.chunkEnd = @ + samplesRead * PipeBytesPerFrame]
    /\ UNCHANGED <<fp, dec, prod, cb, stopper, waiter, main, hist, crashed, ring, ap, mon>>

\* p.ringbuf.Write(buffer[:bytesToWrite]), for the first time or again after
\* it failed.
PipeWriteCall ==
    /\ call.kind = "pipe"
    /\ ring.p.pc = "idle"
    /\ ring.next < call.chunkEnd
    /\ ring' = [ring EXCEPT !.p = [ProducerLocals EXCEPT
                  !.pc = "availLoadW",
                  !.data = [j \in 1 .. call.chunkEnd - ring.next |->
                               RingItem("byte", ring.next + j)]]]
    /\ UNCHANGED playerVars

\* p.ringbuf.Read(buffer): the buffer holds framesPerBuffer sample frames.
PipeReadCall ==
    /\ call.kind = "pipe"
    /\ ring.c.pc = "idle"
    /\ call.taken = Len(ring.got)
    /\ Len(ring.got) < PipeSamples * PipeBytesPerFrame
    /\ ring' = [ring EXCEPT !.c = [ConsumerLocals EXCEPT
                  !.pc = "availLoadW", !.op = "Read",
                  !.n = PipeFramesPerBuffer * PipeBytesPerFrame]]
    /\ UNCHANGED playerVars

\* frames := bytesRead / bytesPerFrame; bytesAligned := frames * bytesPerFrame;
\* stream.Write(frames, buffer[:bytesAligned]).  The rest of the bytes read is
\* not looked at again.
PipeAlign ==
    /\ call.kind = "pipe"
    /\ ring.c.pc = "idle"
    /\ call.taken < Len(ring.got)
    /\ LET bytesRead == Len(ring.got) - call.taken
           frames == bytesRead \div PipeBytesPerFrame
           bytesAligned == frames * PipeBytesPerFrame
       IN  call' = [call EXCEPT
                      !.taken = Len(ring.got),
                      !.played = @ \o SubSeq(ring.got, call.taken + 1,
                                             call.taken + bytesAligned)]
    /\ UNCHANGED <<fp, dec, prod, cb, stopper, waiter, main, hist, crashed, ring, ap, mon>>

NextPipe ==
    \/ PipeDecode
    \/ PipeWriteCall
    \/ RingWriteAvailLoadW
    \/ RingWriteAvailLoadR
    \/ RingWriteLoadW
    \/ RingWriteCopyBytes
    \/ RingWriteStore
    \/ PipeReadCall
    \/ RingReadAvailLoadW
    \/ RingReadAvailLoadR
    \/ RingReadLoadR
    \/ RingReadCopyBytes
    \/ RingReadStore
    \/ PipeAlign

SpecPipe == InitPipe /\ [][NextPipe]_vars

\* C35: in the byte-ring pipelines with a fixed format, every producer write
\* being all-or-nothing and a whole number of sample frames, the number of
\* readable bytes is always a multiple of channels x bytes_per_sample, every
\* consumer read returns a whole number of sample frames, and the alignment
\* to frame boundaries drops and tears nothing: what was handed on is what
\* was read, the stream the producer wrote.
C35_WholeSampleFrames ==
    /\ (ring.writePos - ring.readPos) % PipeBytesPerFrame = 0
    /\ ring.c.pc = "store" => ring.c.toRead % PipeBytesPerFrame = 0
    /\ (Len(ring.got) - call.taken) % PipeBytesPerFrame = 0
    /\ call.played = RingSent("byte", call.taken)

\* The whole file has been handed on; the ring's size is not a multiple of
\* the sample frame, so a frame lay across the end of the storage.
C35_Witness ==
    /\ Len(call.played) = PipeSamples * PipeBytesPerFrame
    /\ Len(call.played) > ring.size
    /\ ring.size % PipeBytesPerFrame # 0

\* ====================================================== frame ring, part 2
\* C36: a frame that Read returned and the consumer still holds (as the
\* callback holds its partly consumed current frame) is not modified by any
\* later Write to the ring, not even by the one that stores a new frame in
\* the slot it was read from.
C36_HeldFrameUntouched ==
    [][ call.kind = "frames" /\ call'.last.op = "Write" =>
          /\ call'.got = call.got
          /\ \A i \in 1 .. Len(call.got) :
                FrameValue(call'.heap, call.got[i]) = FrameValue(call.heap, call.got[i])
      ]_vars

\* A Write has just stored a frame with other payload bytes in the slot that
\* a frame still held from the latest Read came from.
C36_Witness ==
    /\ call.kind = "frames"
    /\ call.last.op = "Write"
    /\ call.last.n > 0
    /\ \E i \in 1 .. Len(call.got) :
         LET k == call.gotFrom + i - 1
         IN  /\ k + call.rb.size >= call.last.wBefore
             /\ k + call.rb.size < call.rb.writePos
             /\ call.written[k + call.rb.size + 1].Audio # call.written[k + 1].Audio

\* ======================================================= FilePlayer, part 4
\* C37: every invocation of the callback ends after a bounded number of
\* steps without waiting for the producer or any other thread: it returns
\* even if only the callback itself goes on running, each iteration of its
\* fill loop copies at least one byte, drops the frame it used up (fetching
\* it from the ring) or leaves the loop, and no more than bytesNeeded bytes
\* are ever copied.
C37_CallbackTerminates ==
    /\ (cb.pc # "idle") ~> (cb.pc = "idle" \/ crashed)
    /\ [][ cb.pc = "fill" /\ (cb' # cb \/ fp'.frameOffset # fp.frameOffset
                                     \/ fp'.currentFrame # fp.currentFrame) =>
             \/ cb'.bytesWritten > cb.bytesWritten
             \/ fp'.ringbuf.readPos > fp.ringbuf.readPos
             \/ cb'.pc = "finish" ]_vars
    /\ [](cb.bytesWritten <= cb.bytesNeeded)

\* The fill loop has found the ring empty while the producer was still at
\* work, and has been left.
C37_Witness ==
    /\ cb.pc = "finish"
    /\ cb.bytesWritten < cb.bytesNeeded
    /\ fp.currentFrame = NilFrame
    /\ AvailableRead(fp.ringbuf) = 0
    /\ ~fp.producerDone
    /\ prod.pc = "write"
    /\ ~crashed

\* ============================================== the producer's frame, claim
\* C38: every frame the FilePlayer producer builds has
\* len(audio) = samples_count x channels x (bits_per_sample / 8), with
\* samples_count the number of samples decoded for it, for every
\* samples_per_frame, those above 65535 included.
C38_FrameLengthMatchesCount ==
    call.kind = "produce" /\ call.made =>
        /\ call.samplesCount = call.samplesRead
        /\ call.audioLen
              = call.samplesCount * call.channels * (call.bitsPerSample \div 8)

\* ================================================ byte ring: zero-copy reads
\* ReadSlices that returns the bytes up to the end of the storage only.
ByteRingReadSlicesNoWrap(rb) ==
    LET available == AvailableRead(rb)
        start == BitAnd(rb.readPos, rb.mask)
    IN  [first |-> BufferSlice(rb.buffer, start, Min(start + available, rb.size)),
         second |-> << >>, total |-> available, rb |-> rb]

\* ReadSlices(): [first, second, total] and the ring it leaves.
ByteRingReadSlices(rb) ==
    LET available == AvailableRead(rb)
        start == BitAnd(rb.readPos, rb.mask)
        end == BitAnd(rb.readPos + available, rb.mask)
    IN  IF available = 0
        THEN [first |-> << >>, second |-> << >>, total |-> 0, rb |-> rb]
        ELSE IF end > start
        THEN [first |-> BufferSlice(rb.buffer, start, end), second |-> << >>,
              total |-> available, rb |-> rb]
        ELSE [first |-> BufferSlice(rb.buffer, start, rb.size),
              second |-> BufferSlice(rb.buffer, 0, end),
              total |-> available, rb |-> rb]

\* Consume(n): [rb, err]
ByteRingConsume(rb, n) ==
    IF n = 0 THEN [rb |-> rb, err |-> "nil"]
    ELSE IF n > AvailableRead(rb) THEN [rb |-> rb, err |-> "ErrInsufficientData"]
    ELSE [rb |-> [rb EXCEPT !.readPos = rb.readPos + n], err |-> "nil"]

\* C39: in every state of the byte ring, ReadSlices followed by
\* Consume(total) does what a Read of all readable bytes does: total =
\* AvailableRead() = len(first) + len(second), first followed by second are
\* the bytes Read returns, in order, ReadSlices leaves read_pos where it is,
\* and after Consume(total) the ring is as after the Read; Consume of more
\* than is readable fails with ErrInsufficientData and changes nothing.
C39_SlicesThenConsumeIsRead ==
    ring.kind = "byte" /\ ring.c.pc = "idle" =>
        LET rb == RingAsCalled
            s == ByteRingReadSlices(rb)
            r == ByteRingRead(rb, AvailableRead(rb))
            whole == ByteRingRead(rb, rb.size)
            c == ByteRingConsume(s.rb, s.total)
            more == ByteRingConsume(s.rb, s.total + 1)
        IN  /\ s.total = AvailableRead(rb)
            /\ s.total = Len(s.first) + Len(s.second)
            /\ s.first \o s.second = r.data
            /\ s.first \o s.second = whole.data
            /\ s.first \o s.second
                  = [j \in 1 .. s.total |-> RingItem("byte", rb.readPos + j)]
            /\ s.rb = rb
            /\ c.err = "nil"
            /\ c.rb = r.rb
            /\ c.rb = whole.rb
            /\ more.err = "ErrInsufficientData" /\ more.rb = rb

\* The readable bytes lie on both sides of the end of the storage: ReadSlices
\* returns two slices.
C39_Witness ==
    /\ ring.kind = "byte"
    /\ ring.c.pc = "idle"
    /\ Len(ByteRingReadSlices(RingAsCalled).first) > 0
    /\ Len(ByteRingReadSlices(RingAsCalled).second) > 0
    /\ ring.readPos > 0

\* ======================================================= frame codec, part 2
\* C40: when Unmarshal returns an error (truncated header or truncated
\* payload) the receiving frame is as it was before the call: sample rate,
\* channels, bits per sample, samples count and payload.
C40_UnmarshalErrorKeepsReceiver ==
    (call.kind = "codec" /\ call.pc = "parsed" /\ call.out.err # "nil") =>
        call.out.af = call.af

====
